---- MODULE Spec2Model ----
(***************************************************************************)
(* Model of the Zotero MCP server's resilience layer:                      *)
(*   - CacheManager        (src/src/services/cache-manager.ts)             *)
(*   - ZoteroClient        (src/src/services/zotero-client.ts): the pause  *)
(*     gate, per-attempt abort signals, executeWithRetry, and the cache-   *)
(*     aware read / cache-invalidating write paths built on it             *)
(*   - handleError         (src/unnamed/part_003)                          *)
(*                                                                         *)
(* Time is Date.now() in milliseconds.  Cache keys are JavaScript strings; *)
(* they are modelled as sequences of string pieces so that                 *)
(* String.prototype.startsWith is the sequence-prefix relation.            *)
(***************************************************************************)
EXTENDS Integers, Sequences, FiniteSets, TLC

VARIABLES
    now,           \* Date.now(), ms
    cache,         \* CacheManager.cache : key -> [value, expiresAt]
    ret,           \* what the last direct call of a method returned, and the
                   \* entry a set replaced
    config,        \* ZoteroConfig (immutable after start)
    backoffUntil,  \* ZoteroClient.backoffUntil : <<>> (null) or <<timestamp>>
    procs,         \* the in-flight operations (async call chains)
    pauseSet,      \* history: the deadline last assigned to backoffUntil
    remote,        \* the library on the Zotero server
    tool           \* the tool handler call in progress

vars == <<now, cache, ret, config, backoffUntil, procs, pauseSet, remote, tool>>

----------------------------------------------------------------------------
(* Bounds of the model *)

\* Date.now() advances by this much per clock step
TickMs == 1000
\* the clock stops here: in the specification of one operation's retries,
MaxTime == 12000
\* in the cache specification,
MaxCacheTime == 2000
\* in the specification of concurrent operations,
MaxGateTime == 6000
\* and in the specification of the cached reads and writes
MaxClientTime == 1000
\* largest ttlSeconds handed to CacheManager.set in the cache specification
MaxTtl == 2
\* the clock stops here in the specification of the cached reads,
MaxReadTime == 1000
\* whose caller keeps to this many cache slots
MaxCached == 3
\* the clock stops here in the specification of the writes
MaxWriteTime == 1000
\* and in the specification of the two formats
MaxFormatTime == 1000
\* the clock stops here in the specification of the versioned writes,
MaxVersionTime == 1000
\* whose library does not go beyond this version
MaxVersion == 3
\* the largest library manage_tags runs over
MaxItems == 201
\* the most items a search by DOI matches
MaxMatches == 12
\* the client calls of one manage_tags call that are followed
MaxToolCalls == 3

(* Program constants *)

MsPerSecond == 1000

Null == "null"

\* no library is looked at, no tool handler is running
NoRemote == << >>
NoTool == [pc |-> "none"]

----------------------------------------------------------------------------
(* CacheManager *)

\* the keys of the prefix-invalidation example
CacheKeys ==
    { <<"search:", "a">>, <<"search:", "b">>, <<"item:", "x">> }

CachePrefixes ==
    { <<>>, <<"search:">>, <<"item:">>, <<"item:", "x">>, <<"tags:">>, <<"coll">> }

CacheValues == {"v1", "v2"}

\* the ttlSeconds of the cache specification: expiry at once, and later
CacheTtls == {0, MaxTtl}

\* String.prototype.startsWith
startsWith(key, prefix) ==
    /\ Len(prefix) <= Len(key)
    /\ SubSeq(key, 1, Len(prefix)) = prefix

\* Map without the keys in gone
Without(m, gone) == [k \in (DOMAIN m) \ gone |-> m[k]]

\* Map.set
Put(m, key, entry) == [k \in (DOMAIN m) \cup {key} |-> IF k = key THEN entry ELSE m[k]]

\* Map.get(key) is undefined
NoEntry == [value |-> Null, expiresAt |-> 0]

\* a get that already evicts at the instant of expiry
isExpiredAtDeadline(entry, t) == entry.expiresAt <= t

\* if (entry.expiresAt < Date.now())
isExpired(entry, t) == entry.expiresAt < t

\* CacheManager.get: [value, cache], the returned value and the map afterwards
cacheGet(m, key, t) ==
    IF key \notin DOMAIN m
    THEN [value |-> Null, cache |-> m]
    ELSE IF isExpired(m[key], t)
         THEN [value |-> Null, cache |-> Without(m, {key})]
         ELSE [value |-> m[key].value, cache |-> m]

\* a set that leaves the clock of an entry it finds running
cacheSetKeepsClock(m, key, value, ttlSeconds, t) ==
    Put(m, key, [value |-> value,
                 expiresAt |-> IF key \in DOMAIN m THEN m[key].expiresAt
                               ELSE t + ttlSeconds * MsPerSecond])

\* CacheManager.set
cacheSet(m, key, value, ttlSeconds, t) ==
    Put(m, key, [value |-> value, expiresAt |-> t + ttlSeconds * MsPerSecond])

\* the keys CacheManager.invalidateByPrefix deletes
prefixMatches(m, prefix) == {k \in DOMAIN m : startsWith(k, prefix)}

\* an invalidation that compares with === instead of startsWith
invalidateExactKey(m, prefix) == Without(m, {prefix})

\* CacheManager.invalidateByPrefix: the map afterwards
invalidateByPrefix(m, prefix) == Without(m, prefixMatches(m, prefix))

\* a sweep that stops at the first expired entry it meets
firstExpiredKey(m, t) ==
    LET expired == {k \in DOMAIN m : isExpired(m[k], t)}
    IN  IF expired = {} THEN {} ELSE {CHOOSE k \in expired : TRUE}

\* the keys CacheManager.cleanup deletes
expiredKeys(m, t) == {k \in DOMAIN m : isExpired(m[k], t)}

Get(key) ==
    LET r == cacheGet(cache, key, now) IN
    /\ cache' = r.cache
    /\ ret' = [op |-> "get", key |-> key, value |-> r.value, count |-> 0,
               evicted |-> (r.cache # cache), replaced |-> NoEntry]
    /\ UNCHANGED <<remote, tool, now, config, backoffUntil, procs, pauseSet>>

Set(key, value, ttlSeconds) ==
    /\ cache' = cacheSet(cache, key, value, ttlSeconds, now)
    /\ ret' = [op |-> "set", key |-> key, value |-> value, count |-> 0, evicted |-> FALSE,
               replaced |-> IF key \in DOMAIN cache THEN cache[key] ELSE NoEntry]
    /\ UNCHANGED <<remote, tool, now, config, backoffUntil, procs, pauseSet>>

Delete(key) ==
    /\ cache' = Without(cache, {key})
    /\ ret' = [op |-> "delete", key |-> key, value |-> Null,
               count |-> IF key \in DOMAIN cache THEN 1 ELSE 0, evicted |-> FALSE,
               replaced |-> NoEntry]
    /\ UNCHANGED <<remote, tool, now, config, backoffUntil, procs, pauseSet>>

InvalidateByPrefix(prefix) ==
    /\ cache' = invalidateByPrefix(cache, prefix)
    /\ ret' = [op |-> "invalidateByPrefix", key |-> prefix, value |-> Null,
               count |-> Cardinality(prefixMatches(cache, prefix)), evicted |-> FALSE,
               replaced |-> NoEntry]
    /\ UNCHANGED <<remote, tool, now, config, backoffUntil, procs, pauseSet>>

Clear ==
    /\ cache' = << >>
    /\ ret' = [op |-> "clear", key |-> <<>>, value |-> Null, count |-> 0, evicted |-> FALSE,
               replaced |-> NoEntry]
    /\ UNCHANGED <<remote, tool, now, config, backoffUntil, procs, pauseSet>>

Cleanup ==
    /\ cache' = Without(cache, expiredKeys(cache, now))
    /\ ret' = [op |-> "cleanup", key |-> <<>>, value |-> Null,
               count |-> Cardinality(expiredKeys(cache, now)), evicted |-> FALSE,
               replaced |-> NoEntry]
    /\ UNCHANGED <<remote, tool, now, config, backoffUntil, procs, pauseSet>>

\* Date.now() moves on
Tick ==
    /\ now + TickMs <= MaxTime
    /\ now' = now + TickMs
    /\ UNCHANGED <<remote, tool, cache, ret, config, backoffUntil, procs, pauseSet>>

NoRet ==
    [op |-> "none", key |-> <<>>, value |-> Null, count |-> 0, evicted |-> FALSE,
     replaced |-> NoEntry]

InitCache ==
    /\ now = 0
    /\ cache = << >>
    /\ ret = NoRet
    /\ config = [maxRetries |-> 0, timeout |-> 0, cacheEnabled |-> TRUE, cacheTTL |-> 0,
                 userId |-> "u1", groupId |-> ""]
    /\ backoffUntil = << >>
    /\ procs = << >>
    /\ pauseSet = << >>
    /\ remote = NoRemote
    /\ tool = NoTool

NextCache ==
    \/ \E k \in CacheKeys : Get(k)
    \/ \E k \in CacheKeys, v \in CacheValues, ttl \in CacheTtls : Set(k, v, ttl)
    \/ \E k \in CacheKeys : Delete(k)
    \/ \E p \in CachePrefixes : InvalidateByPrefix(p)
    \/ Clear
    \/ Cleanup
    \/ (now < MaxCacheTime /\ Tick)

SpecCache == InitCache /\ [][NextCache]_vars

----------------------------------------------------------------------------
(* Errors a network call can reject with *)

\* getErrorStatus returns undefined
NoStatus == 0

\* a response header: absent, a decimal number of seconds, or an HTTP date
NoHeader == [kind |-> "absent", n |-> 0]
Seconds(n) == [kind |-> "int", n |-> n]
HttpDate == [kind |-> "date", n |-> 0]

\* error.name, error.response.status, the first three-digit run of
\* error.message, the connection failure error.message names, and the
\* Backoff / Retry-After headers of error.response
Err(name, responseStatus, messageStatus, message, backoff, retryAfter) ==
    [name |-> name, responseStatus |-> responseStatus, messageStatus |-> messageStatus,
     message |-> message, backoff |-> backoff, retryAfter |-> retryAfter]

NoError == Err("none", NoStatus, NoStatus, "none", NoHeader, NoHeader)

\* the ErrorResponse of zotero-api-client: the status is on error.response
\* and leads error.message
HttpError(status, backoff, retryAfter) ==
    Err("Error", status, status, "other", backoff, retryAfter)

\* the rejection of a fetch whose signal was aborted
AbortError == Err("AbortError", NoStatus, NoStatus, "other", NoHeader, NoHeader)

\* a failure below HTTP; the message may carry digits (an address)
NetworkError(message, digits) ==
    Err("Error", NoStatus, digits, message, NoHeader, NoHeader)

\* an error that carries its status in the message only
MessageError(status) == Err("Error", NoStatus, status, "other", NoHeader, NoHeader)

\* getErrorStatus
getErrorStatus(error) ==
    IF error.responseStatus # NoStatus
    THEN error.responseStatus
    ELSE error.messageStatus

\* getRetryAfterSeconds: << >> is null, <<n>> the parsed number
getRetryAfterSeconds(error) ==
    LET value == IF error.backoff.kind # "absent" THEN error.backoff ELSE error.retryAfter
    IN  IF value.kind = "absent" THEN << >>
        ELSE IF value.kind = "int" THEN <<value.n>>
        ELSE << >>

\* if (retryAfterSeconds): null and 0 are falsy
truthy(retryAfterSeconds) ==
    retryAfterSeconds # << >> /\ retryAfterSeconds[1] # 0

\* handleError(error).isRetryable
isRetryable(error) ==
    LET statusCode == IF error.responseStatus # NoStatus
                      THEN error.responseStatus ELSE error.messageStatus
        byStatus == statusCode = 412 \/ statusCode = 429 \/ statusCode >= 500
    IN  IF error.name = "ZodError" THEN FALSE
        ELSE IF error.message \in {"ECONNREFUSED", "ETIMEDOUT", "ENOTFOUND"} THEN TRUE
        ELSE byStatus

----------------------------------------------------------------------------
(* ZoteroClient: pause gate, abort signals, executeWithRetry *)

\* the operations in flight
Procs == {"p1", "p2"}

\* an operation of the client and its arguments; tags is itemData.tags
\* ("undefined" without the field, "[]" an empty list, "[t]" a list of tags),
\* version is << >> when undefined, format is "" when undefined, include is
\* the list joined with commas, or "undefined", params is the search
\* parameters object: its properties in the order they were added
NoOp ==
    [kind |-> "none", itemKey |-> "", tags |-> "undefined", collectionKey |-> "",
     format |-> "", itemKeys |-> << >>, version |-> << >>, include |-> "undefined",
     params |-> << >>]

\* no library reference
NoLibrary == [type |-> "none", id |-> ""]

\* library is the { type, id } the operation's calls are addressed to;
\* response is the library's answer to a read on its way to the client
IdleProc ==
    [pc |-> "idle", op |-> NoOp, retries |-> 0, calls |-> 0, wake |-> 0,
     signals |-> << >>, error |-> NoError, allRateLimited |-> TRUE,
     result |-> Null, fromCache |-> FALSE, library |-> NoLibrary,
     response |-> Null]

\* a controller that is shared by the attempts of one operation
reuseAbortSignal(signals, t) ==
    IF signals = << >>
    THEN <<[timer |-> "armed", deadline |-> t + config.timeout]>>
    ELSE signals

\* createAbortSignal: a new AbortController and its timer; the attempt is
\* bound to the last controller of the list
createAbortSignal(signals, t) ==
    Append(signals, [timer |-> "armed", deadline |-> t + config.timeout])

\* cleanup: clearTimeout(timeoutId) of controller i
cleanup(signals, i) ==
    [signals EXCEPT ![i] = IF @.timer = "armed"
                           THEN [timer |-> "cleared", deadline |-> 0] ELSE @]

\* the controller the current attempt is bound to
bound(proc) == Len(proc.signals)

\* const { signal, cleanup } = this.createAbortSignal(); fn(signal)
issue(proc, t) ==
    [proc EXCEPT !.pc = "inflight",
                 !.calls = @ + 1,
                 !.signals = createAbortSignal(@, t),
                 !.wake = 0]

\* handleRateLimit's test: this.backoffUntil && Date.now() < this.backoffUntil
paused(until, t) == until # << >> /\ t < until[1]

\* executeWithRetry(fn, retries) up to its first suspension: wait at the
\* pause gate, or pass it and issue the call
enter(proc, retries, until, t) ==
    IF paused(until, t)
    THEN [proc EXCEPT !.pc = "gate", !.retries = retries, !.wake = until[1]]
    ELSE issue([proc EXCEPT !.retries = retries], t)

\* 5 * Math.pow(2, this.config.maxRetries - retries)
backoffSeconds(retries) == 5 * 2 ^ (config.maxRetries - retries)

\* 1000 * (this.config.maxRetries - retries + 1)
linearDelay(retries) == 1000 * (config.maxRetries - retries + 1)

\* a retry budget that is never used up
retriesNeverRunOut(retries) == retries >= 0

\* retries > 0
retriesRemain(retries) == retries > 0

\* a retry that leaves the budget as it found it
retriesKept(retries) == retries

\* this.executeWithRetry(fn, retries - 1)
retriesLeft(retries) == retries - 1

\* status === 429 || status === 503
isRateLimit(status) == status = 429 \/ status = 503

\* a network-error branch that leaves out the aborted attempt
isTransientButAbort(error, status) ==
    \/ status = 408
    \/ (status # NoStatus /\ status >= 500)
    \/ error.message \in {"ECONNREFUSED", "ETIMEDOUT", "fetch failed"}

\* a network-error branch that takes every 4xx too
isTransientOrClientError(error, status) ==
    \/ error.name = "AbortError"
    \/ (status # NoStatus /\ status >= 400)
    \/ error.message \in {"ECONNREFUSED", "ETIMEDOUT", "fetch failed"}

\* the condition of the network-error branch, retries > 0 aside
isTransient(error, status) ==
    \/ error.name = "AbortError"
    \/ status = 408
    \/ (status # NoStatus /\ status >= 500)
    \/ error.message \in {"ECONNREFUSED", "ETIMEDOUT", "fetch failed"}

\* backoffUntil after the catch block's assignments
pauseAfter(error, retries, until, t) ==
    LET status == getErrorStatus(error)
        retryAfterSeconds == getRetryAfterSeconds(error)
    IN  IF truthy(retryAfterSeconds)
        THEN <<t + retryAfterSeconds[1] * MsPerSecond>>
        ELSE IF isRateLimit(status)
             THEN <<t + backoffSeconds(retries) * MsPerSecond>>
             ELSE until

\* the catch block of executeWithRetry, with finally: the operation's state
\* after the attempt rejected with error at time t
catch(proc, error, until, t) ==
    LET status == getErrorStatus(error)
        retries == proc.retries
        i == bound(proc)
        seen == [proc EXCEPT !.allRateLimited = @ /\ isRateLimit(status)]
    IN  IF isRateLimit(status) /\ retriesRemain(retries)
        THEN LET next == enter(seen, retriesLeft(retries), pauseAfter(error, retries, until, t), t)
             IN  [next EXCEPT !.signals = cleanup(@, i)]
        ELSE IF retriesRemain(retries) /\ isTransient(error, status)
             THEN [seen EXCEPT !.pc = "delay", !.wake = t + linearDelay(retries)]
             ELSE [seen EXCEPT !.pc = "failed", !.error = error,
                               !.signals = cleanup(@, i)]


----------------------------------------------------------------------------
(* ZoteroClient: the operations *)

SearchItemsRaw == [NoOp EXCEPT !.kind = "searchItemsRaw"]
GetItem(itemKey) == [NoOp EXCEPT !.kind = "getItem", !.itemKey = itemKey]
GetTags == [NoOp EXCEPT !.kind = "getTags"]
\* tags: itemData.tags
UpdateItem(itemKey, tags) ==
    [NoOp EXCEPT !.kind = "updateItem", !.itemKey = itemKey, !.tags = tags]
SearchItems == [NoOp EXCEPT !.kind = "searchItems"]
SearchItemsInCollection(collectionKey) ==
    [NoOp EXCEPT !.kind = "searchItemsInCollection", !.collectionKey = collectionKey]
GetItemWithFormat(itemKey, format) ==
    [NoOp EXCEPT !.kind = "getItemWithFormat", !.itemKey = itemKey, !.format = format]
\* getItemWithFormat(itemKey, { format, include })
GetItemView(itemKey, format, include) ==
    [GetItemWithFormat(itemKey, format) EXCEPT !.include = include]
\* searchItems(params)
SearchItemsOf(params) == [SearchItems EXCEPT !.params = params]
GetItemTemplate == [NoOp EXCEPT !.kind = "getItemTemplate"]
GetCollections == [NoOp EXCEPT !.kind = "getCollections"]
GetCollection(collectionKey) ==
    [NoOp EXCEPT !.kind = "getCollection", !.collectionKey = collectionKey]
GenerateCitation(itemKey) ==
    [NoOp EXCEPT !.kind = "generateCitation", !.itemKey = itemKey]
CreateItem(tags) == [NoOp EXCEPT !.kind = "createItem", !.tags = tags]
DeleteItems(itemKeys) == [NoOp EXCEPT !.kind = "deleteItems", !.itemKeys = itemKeys]
CreateCollection == [NoOp EXCEPT !.kind = "createCollection"]
UpdateCollection(collectionKey) ==
    [NoOp EXCEPT !.kind = "updateCollection", !.collectionKey = collectionKey]
DeleteCollection(collectionKey) ==
    [NoOp EXCEPT !.kind = "deleteCollection", !.collectionKey = collectionKey]

ItemKeys == {"A", "B"}

\* the read operations that go through the cache
isCachedRead(op) ==
    op.kind \in {"searchItems", "searchItemsInCollection", "getItem", "getItemWithFormat",
                 "getItemTemplate", "getCollections", "getCollection", "getTags",
                 "generateCitation"}

\* getItem is getItemWithFormat(itemKey, {format: 'json'}):
\* `item:${itemKey}:${formatKey}:${includeKey}` with no include list
itemCacheKey(itemKey) == <<"item:", itemKey, ":", "json", ":">>

tagsCacheKey == <<"tags:", "all">>

\* const formatKey = options?.format || 'json'
formatKey(op) == IF op.format = "" THEN "json" ELSE op.format

\* one cache key for every view of an item
itemKeyOnly(op) == <<"item:", op.itemKey>>

\* getItemWithFormat's cacheKey: `item:${itemKey}:${formatKey}:${includeKey}`
\* with a format or an include list, `item:${itemKey}` with neither
itemViewKey(op) ==
    IF op.format # "" \/ op.include # "undefined"
    THEN <<"item:", op.itemKey, ":", formatKey(op), ":">>
         \o (IF op.include = "undefined" THEN << >> ELSE <<op.include>>)
    ELSE <<"item:", op.itemKey>>

\* a property of an object
Property(name, value) == [name |-> name, value |-> value]

\* the properties JSON.stringify writes: those whose value is not undefined,
\* in the order they were added to the object
ownProperties(params) == SelectSeq(params, LAMBDA x : x.value # "undefined")

\* JSON.stringify(params): {"name":value,...}
stringify(params) ==
    LET written == ownProperties(params)
        RECURSIVE members(_)
        members(i) ==
            IF i > Len(written) THEN << >>
            ELSE (IF i > 1 THEN <<",">> ELSE << >>)
                 \o <<written[i].name, ":", written[i].value>> \o members(i + 1)
    IN  <<"{">> \o members(1) \o <<"}">>

\* the cacheKey each read builds; the template's item type and the
\* citation's style, format and locale are one fixed choice
cacheKeyOf(op) ==
    CASE op.kind = "getItem" -> itemCacheKey(op.itemKey)
      [] op.kind = "getItemWithFormat" -> itemViewKey(op)
      [] op.kind = "searchItems" -> <<"search:">> \o stringify(op.params)
      [] op.kind = "searchItemsInCollection" ->
             <<"search:", "collection:", op.collectionKey, ":">> \o stringify(op.params)
      [] op.kind = "getItemTemplate" -> <<"template:", "book">>
      [] op.kind = "getCollections" -> <<"collections:", "all">>
      [] op.kind = "getCollection" -> <<"collection:", op.collectionKey>>
      [] op.kind = "generateCitation" ->
             <<"citation:", op.itemKey, ":", "apa", ":", "text", ":", "default">>
      [] OTHER -> tagsCacheKey

\* one TTL, the configured one, for every category
ttlAlwaysConfigured(op) == config.cacheTTL

\* the ttlSeconds each read stores its result with
ttlOf(op) ==
    CASE op.kind \in {"getItem", "getItemWithFormat", "searchItems",
                      "searchItemsInCollection"} -> config.cacheTTL
      [] op.kind \in {"getItemTemplate", "generateCitation"} -> 3600
      [] OTHER -> 900

\* the reads whose result is text (extractTextResponse), not parsed data
returnsText(op) ==
    \/ op.kind = "generateCitation"
    \/ op.kind = "getItemWithFormat" /\ op.format \notin {"", "json"}

\* a getItemWithFormat that stores whatever it fetched
storesEveryResult(op) == TRUE

\* getItemWithFormat: if (typeof item !== 'string') this.cache.set(...);
\* every other read stores its result
storesResult(op) == op.kind = "getItemWithFormat" => ~returnsText(op)

\* if (cached): null and the empty string are falsy
isHit(value) == value # Null /\ value # ""

\* the values itemData.tags takes
TagsPayloads == {"undefined", "[]", "[t]"}

\* a test that takes an empty list for no tags
hasTagsInList(tags) == tags = "[t]"

\* if (itemData?.tags): undefined is falsy, every array is truthy
hasTags(tags) == tags # "undefined"

\* an update that forgets the tag listing
invalidateAfterUpdateNoTags(m, op) ==
    invalidateByPrefix(invalidateByPrefix(m, <<"item:", op.itemKey>>), <<"search:">>)

\* updateItem's invalidations
invalidateAfterUpdate(m, op) ==
    LET m1 == invalidateByPrefix(m, <<"item:", op.itemKey>>)
        m2 == invalidateByPrefix(m1, <<"search:">>)
    IN  IF hasTags(op.tags) THEN invalidateByPrefix(m2, <<"tags:">>) ELSE m2

\* createItem's invalidations
invalidateAfterCreate(m, op) ==
    LET m1 == invalidateByPrefix(m, <<"search:">>)
        m2 == invalidateByPrefix(m1, <<"collections:">>)
    IN  IF hasTags(op.tags) THEN invalidateByPrefix(m2, <<"tags:">>) ELSE m2

\* a deletion that drops the entries of every item
invalidateAllItems(m, itemKeys) == invalidateByPrefix(m, <<"item:">>)

\* itemKeys.forEach((key) => this.cache.invalidateByPrefix(`item:${key}`)):
\* the deletions of all the calls together
invalidateItems(m, itemKeys) ==
    Without(m, UNION {prefixMatches(m, <<"item:", itemKeys[i]>>) : i \in DOMAIN itemKeys})

\* deleteItems' invalidations
invalidateAfterDelete(m, op) ==
    LET m1 == invalidateItems(m, op.itemKeys)
        m2 == invalidateByPrefix(m1, <<"search:">>)
    IN  invalidateByPrefix(m2, <<"collections:">>)

\* createCollection's invalidation
invalidateAfterCreateCollection(m, op) == invalidateByPrefix(m, <<"collections:">>)

\* updateCollection's and deleteCollection's invalidations
invalidateAfterCollectionWrite(m, op) ==
    invalidateByPrefix(Without(m, {<<"collection:", op.collectionKey>>}), <<"collections:">>)

\* what an operation does to the cache once executeWithRetry has resolved
afterSuccess(m, op, value, t) ==
    IF ~config.cacheEnabled THEN m
    ELSE IF isCachedRead(op)
         THEN IF storesResult(op) THEN cacheSet(m, cacheKeyOf(op), value, ttlOf(op), t) ELSE m
    ELSE CASE op.kind = "updateItem" -> invalidateAfterUpdate(m, op)
           [] op.kind = "createItem" -> invalidateAfterCreate(m, op)
           [] op.kind = "deleteItems" -> invalidateAfterDelete(m, op)
           [] op.kind = "createCollection" -> invalidateAfterCreateCollection(m, op)
           [] op.kind \in {"updateCollection", "deleteCollection"} ->
                  invalidateAfterCollectionWrite(m, op)
           [] OTHER -> m

\* the operations that address a library; the item template is global
isLibraryScoped(op) == op.kind # "getItemTemplate"

\* a library reference that falls back on the user library with no id
getLibraryIdOrDefault(cfg) ==
    IF cfg.groupId # "" /\ cfg.userId = ""
    THEN [type |-> "group", id |-> cfg.groupId]
    ELSE [type |-> "user", id |-> cfg.userId]

\* getLibraryId: an unset id and the empty string are falsy; NoLibrary is
\* the throw
getLibraryId(cfg) ==
    IF cfg.userId # ""
    THEN [type |-> "user", id |-> cfg.userId]
    ELSE IF cfg.groupId # ""
         THEN [type |-> "group", id |-> cfg.groupId]
         ELSE NoLibrary

\* new Error('No userId or groupId configured')
LibraryError ==
    Err("Error", NoStatus, NoStatus, "No userId or groupId configured",
        NoHeader, NoHeader)

\* the largest batch deleteItems sends
MaxDeleteBatch == 50

\* a deleteItems that sends whatever it is given
batchNeverTooLarge(itemKeys) == FALSE

\* if (itemKeys.length > 50)
batchTooLarge(itemKeys) == Len(itemKeys) > MaxDeleteBatch

\* new Error('Cannot delete more than 50 items at once')
BatchError ==
    Err("Error", NoStatus, NoStatus, "Cannot delete more than 50 items at once",
        NoHeader, NoHeader)

\* a read that reserves its cache slot when the lookup misses, before any
\* attempt has been made
StartAndReserve(p, op) ==
    /\ procs[p].pc = "idle"
    /\ LET lookup == IF config.cacheEnabled /\ isCachedRead(op)
                     THEN cacheGet(cache, cacheKeyOf(op), now)
                     ELSE [value |-> Null, cache |-> cache]
           begun == [IdleProc EXCEPT !.op = op]
           library == IF isLibraryScoped(op) THEN getLibraryId(config) ELSE NoLibrary
       IN  /\ cache' = IF config.cacheEnabled /\ isCachedRead(op) /\ ~isHit(lookup.value)
                       THEN cacheSet(lookup.cache, cacheKeyOf(op), Null, ttlOf(op), now)
                       ELSE lookup.cache
           /\ procs' = [procs EXCEPT ![p] =
                  IF op.kind = "deleteItems" /\ batchTooLarge(op.itemKeys)
                  THEN [begun EXCEPT !.pc = "failed", !.error = BatchError]
                  ELSE IF isHit(lookup.value)
                  THEN [begun EXCEPT !.pc = "done", !.result = lookup.value,
                                     !.fromCache = TRUE]
                  ELSE IF isLibraryScoped(op) /\ library = NoLibrary
                  THEN [begun EXCEPT !.pc = "failed", !.error = LibraryError]
                  ELSE enter([begun EXCEPT !.library = library],
                             config.maxRetries, backoffUntil, now)]
    /\ UNCHANGED <<remote, tool, now, ret, config, backoffUntil, pauseSet>>

\* an operation is called: deleteItems' size test or the cache lookup of a
\* read, then getLibraryId, then executeWithRetry up to its first suspension
Start(p, op) ==
    /\ procs[p].pc = "idle"
    /\ LET lookup == IF config.cacheEnabled /\ isCachedRead(op)
                     THEN cacheGet(cache, cacheKeyOf(op), now)
                     ELSE [value |-> Null, cache |-> cache]
           begun == [IdleProc EXCEPT !.op = op]
           library == IF isLibraryScoped(op) THEN getLibraryId(config) ELSE NoLibrary
       IN  /\ cache' = lookup.cache
           /\ procs' = [procs EXCEPT ![p] =
                  IF op.kind = "deleteItems" /\ batchTooLarge(op.itemKeys)
                  THEN [begun EXCEPT !.pc = "failed", !.error = BatchError]
                  ELSE IF isHit(lookup.value)
                  THEN [begun EXCEPT !.pc = "done", !.result = lookup.value,
                                     !.fromCache = TRUE]
                  ELSE IF isLibraryScoped(op) /\ library = NoLibrary
                  THEN [begun EXCEPT !.pc = "failed", !.error = LibraryError]
                  ELSE enter([begun EXCEPT !.library = library],
                             config.maxRetries, backoffUntil, now)]
    /\ UNCHANGED <<remote, tool, now, ret, config, backoffUntil, pauseSet>>

\* handleRateLimit's timer fires: the pause is cleared and the call issued
GateWake(p) ==
    /\ procs[p].pc = "gate"
    /\ now >= procs[p].wake
    /\ backoffUntil' = << >>
    /\ procs' = [procs EXCEPT ![p] = issue(@, now)]
    /\ UNCHANGED <<remote, tool, now, cache, ret, config, pauseSet>>

\* the linear-backoff timer fires: executeWithRetry(fn, retries - 1), then
\* the finally of the attempt that failed
DelayWake(p) ==
    /\ procs[p].pc = "delay"
    /\ now >= procs[p].wake
    /\ LET i == bound(procs[p])
           next == enter(procs[p], retriesLeft(procs[p].retries), backoffUntil, now)
       IN  procs' = [procs EXCEPT ![p] = [next EXCEPT !.signals = cleanup(@, i)]]
    /\ UNCHANGED <<remote, tool, now, cache, ret, config, backoffUntil, pauseSet>>

\* the attempt resolves with value: finally, then the rest of the operation
Resolved(p, value) ==
    /\ procs[p].pc = "inflight"
    /\ procs[p].signals[bound(procs[p])].timer # "fired"
    /\ procs' = [procs EXCEPT ![p] =
           [@ EXCEPT !.pc = "done", !.result = value,
                     !.signals = cleanup(@, bound(procs[p]))]]
    /\ cache' = afterSuccess(cache, procs[p].op, value, now)

\* the attempt resolves, whatever the library holds
Succeed(p, value) ==
    /\ Resolved(p, value)
    /\ UNCHANGED <<remote, tool, now, ret, config, backoffUntil, pauseSet>>

\* the attempt resolves with a response that carries Backoff: seconds, as the
\* Zotero API sends on an answer when it is overloaded: return await
\* fn(signal) reads no header
SucceedWithBackoff(p, value, seconds) ==
    /\ seconds > 0
    /\ Succeed(p, value)

\* the catch block runs with error at the current time
Caught(p, error) ==
    LET until == pauseAfter(error, procs[p].retries, backoffUntil, now) IN
    /\ procs' = [procs EXCEPT ![p] = catch(@, error, backoffUntil, now)]
    /\ backoffUntil' = until
    /\ pauseSet' = IF until # backoffUntil THEN until ELSE pauseSet

\* the attempt rejects with error
Rejected(p, error) ==
    /\ procs[p].pc = "inflight"
    /\ procs[p].signals[bound(procs[p])].timer # "fired"
    /\ Caught(p, error)

\* the attempt rejects with an error of the remote or of the network
Fail(p, error) ==
    /\ Rejected(p, error)
    /\ UNCHANGED <<remote, tool, now, cache, ret, config>>

\* setTimeout(() => controller.abort(), timeoutMs) fires for controller i of
\* p: an attempt in flight on that signal rejects with AbortError
TimerFire(p, i) ==
    /\ i \in DOMAIN procs[p].signals
    /\ procs[p].signals[i].timer = "armed"
    /\ now >= procs[p].signals[i].deadline
    /\ LET fired == [procs[p] EXCEPT !.signals[i] = [timer |-> "fired", deadline |-> 0]]
       IN  IF procs[p].pc = "inflight" /\ i = bound(procs[p])
           THEN /\ procs' = [procs EXCEPT ![p] = catch(fired, AbortError, backoffUntil, now)]
                /\ UNCHANGED <<backoffUntil, pauseSet>>
           ELSE /\ procs' = [procs EXCEPT ![p] = fired]
                /\ UNCHANGED <<backoffUntil, pauseSet>>
    /\ UNCHANGED <<remote, tool, now, cache, ret, config>>

\* the caller has its result or its error; the next call may come
Return(p) ==
    /\ procs[p].pc \in {"done", "failed"}
    /\ procs' = [procs EXCEPT ![p] = IdleProc]
    /\ UNCHANGED <<remote, tool, now, cache, ret, config, backoffUntil, pauseSet>>

----------------------------------------------------------------------------
(* The retry controller under every kind of failure *)

\* ZOTERO_MAX_RETRIES values of the model (the schema allows 0..10)
RetryChoices == {0, 1, 3}

\* ZOTERO_TIMEOUT values of the model (the schema allows >= 1000)
TimeoutChoices == {1000}

HeaderChoices ==
    { <<NoHeader, NoHeader>>, <<NoHeader, Seconds(0)>>, <<NoHeader, Seconds(2)>>,
      <<Seconds(1), Seconds(2)>>, <<NoHeader, HttpDate>> }

RetryErrors ==
    {HttpError(s, h[1], h[2]) : s \in {429, 503}, h \in HeaderChoices}
    \cup {HttpError(s, NoHeader, NoHeader) : s \in {400, 401, 403, 404, 408, 409, 412, 500, 502}}
    \cup {HttpError(500, NoHeader, Seconds(2))}
    \cup {NetworkError("ECONNREFUSED", 127), NetworkError("ETIMEDOUT", NoStatus),
          NetworkError("fetch failed", NoStatus)}
    \cup {MessageError(429), MessageError(NoStatus)}

\* the seconds of a Backoff header on a successful answer
BackoffHints == {1, 2}

InitRetry ==
    /\ now = 0
    /\ cache = << >>
    /\ ret = NoRet
    /\ config \in [maxRetries : RetryChoices, timeout : TimeoutChoices,
                   cacheEnabled : {FALSE}, cacheTTL : {300},
                   userId : {"u1"}, groupId : {""}]
    /\ backoffUntil = << >>
    /\ procs = [p \in {"p1"} |-> IdleProc]
    /\ pauseSet = << >>
    /\ remote = NoRemote
    /\ tool = NoTool

NextRetry ==
    \/ \E p \in DOMAIN procs : Start(p, SearchItemsRaw)
    \/ \E p \in DOMAIN procs : GateWake(p)
    \/ \E p \in DOMAIN procs : DelayWake(p)
    \/ \E p \in DOMAIN procs : Succeed(p, "v1")
    \/ \E p \in DOMAIN procs, seconds \in BackoffHints : SucceedWithBackoff(p, "v1", seconds)
    \/ \E p \in DOMAIN procs, e \in RetryErrors : Fail(p, e)
    \/ \E p \in DOMAIN procs : \E i \in DOMAIN procs[p].signals : TimerFire(p, i)
    \/ Tick

SpecRetry == InitRetry /\ [][NextRetry]_vars

----------------------------------------------------------------------------
(* Two operations in flight at once *)

GateErrors ==
    { HttpError(429, NoHeader, NoHeader), HttpError(429, NoHeader, Seconds(2)),
      HttpError(500, NoHeader, NoHeader), HttpError(404, NoHeader, NoHeader) }

InitGate ==
    /\ now = 0
    /\ cache = << >>
    /\ ret = NoRet
    /\ config \in [maxRetries : {0, 1, 2}, timeout : TimeoutChoices,
                   cacheEnabled : {FALSE}, cacheTTL : {300},
                   userId : {"u1"}, groupId : {""}]
    /\ backoffUntil = << >>
    /\ procs = [p \in Procs |-> IdleProc]
    /\ pauseSet = << >>
    /\ remote = NoRemote
    /\ tool = NoTool

NextGate ==
    \/ \E p \in DOMAIN procs : Start(p, SearchItemsRaw)
    \/ \E p \in DOMAIN procs : GateWake(p)
    \/ \E p \in DOMAIN procs : DelayWake(p)
    \/ \E p \in DOMAIN procs : Succeed(p, "v1")
    \/ \E p \in DOMAIN procs, e \in GateErrors : Fail(p, e)
    \/ \E p \in DOMAIN procs : \E i \in DOMAIN procs[p].signals : TimerFire(p, i)
    \/ (now < MaxGateTime /\ Tick)

SpecGate == InitGate /\ [][NextGate]_vars

----------------------------------------------------------------------------
(* Two operations whose attempts and timers all settle *)

\* a rate-limit signal with a hint, a transient failure, another failure
SettleErrors ==
    { HttpError(429, NoHeader, Seconds(1)), HttpError(500, NoHeader, NoHeader),
      HttpError(404, NoHeader, NoHeader) }

\* a setTimeout of some operation has not fired yet
TimerPending ==
    \E p \in DOMAIN procs :
        \/ procs[p].pc \in {"gate", "delay"} /\ now < procs[p].wake
        \/ /\ procs[p].pc = "inflight"
           /\ procs[p].signals[bound(procs[p])].timer = "armed"
           /\ now < procs[p].signals[bound(procs[p])].deadline

\* the attempt of p in flight resolves or rejects
Settles(p) ==
    \/ Succeed(p, "v1")
    \/ \E e \in SettleErrors : Fail(p, e)
    \/ TimerFire(p, bound(procs[p]))

\* two operations with a budget of up to one retry each, one operation
\* with a budget of two or three
InitSettle ==
    /\ now = 0
    /\ cache = << >>
    /\ ret = NoRet
    /\ config \in [maxRetries : {0, 1, 2, 3}, timeout : TimeoutChoices,
                   cacheEnabled : {FALSE}, cacheTTL : {300},
                   userId : {"u1"}, groupId : {""}]
    /\ backoffUntil = << >>
    /\ procs = [p \in (IF config.maxRetries <= 1 THEN Procs ELSE {"p1"}) |-> IdleProc]
    /\ pauseSet = << >>
    /\ remote = NoRemote
    /\ tool = NoTool

NextSettle ==
    \/ \E p \in DOMAIN procs : Start(p, SearchItemsRaw)
    \/ \E p \in DOMAIN procs : GateWake(p)
    \/ \E p \in DOMAIN procs : DelayWake(p)
    \/ \E p \in DOMAIN procs : Settles(p)
    \/ (TimerPending /\ Tick)

\* every timer fires once its time has come and every attempt settles
SpecSettle ==
    /\ InitSettle
    /\ [][NextSettle]_vars
    /\ WF_vars(TimerPending /\ Tick)
    /\ \A p \in Procs :
          /\ WF_vars(p \in DOMAIN procs /\ GateWake(p))
          /\ WF_vars(p \in DOMAIN procs /\ DelayWake(p))
          /\ WF_vars(p \in DOMAIN procs /\ Settles(p))

----------------------------------------------------------------------------
(* Reads and writes of the client over the cache *)

ClientOps ==
    {GetItem(k) : k \in ItemKeys} \cup {GetTags}
    \cup {UpdateItem(k, tags) : k \in ItemKeys, tags \in {"undefined", "[t]"}}

ClientErrors ==
    { HttpError(429, NoHeader, Seconds(1)), HttpError(500, NoHeader, NoHeader),
      HttpError(404, NoHeader, NoHeader) }

InitClient ==
    /\ now = 0
    /\ cache = << >>
    /\ ret = NoRet
    /\ config \in [maxRetries : {1}, timeout : TimeoutChoices,
                   cacheEnabled : BOOLEAN, cacheTTL : {300},
                   userId : {"u1"}, groupId : {""}]
    /\ backoffUntil = << >>
    /\ procs = [p \in Procs |-> IdleProc]
    /\ pauseSet = << >>
    /\ remote = NoRemote
    /\ tool = NoTool

NextClient ==
    \/ \E p \in DOMAIN procs, op \in ClientOps : Start(p, op)
    \/ \E p \in DOMAIN procs : GateWake(p)
    \/ \E p \in DOMAIN procs : DelayWake(p)
    \/ \E p \in DOMAIN procs : Succeed(p, "v1")
    \/ \E p \in DOMAIN procs, e \in ClientErrors : Fail(p, e)
    \/ \E p \in DOMAIN procs : \E i \in DOMAIN procs[p].signals : TimerFire(p, i)
    \/ \E p \in DOMAIN procs : Return(p)
    \/ (now < MaxClientTime /\ Tick)

SpecClient == InitClient /\ [][NextClient]_vars

----------------------------------------------------------------------------
(* The cached reads, one caller *)

ReadOps ==
    { SearchItems, SearchItemsInCollection("C1"), GetItemWithFormat("A", "json"),
      GetItemWithFormat("A", "bibtex"), GetItemTemplate, GetCollections,
      GetCollection("C1"), GetTags, GenerateCitation("A") }

\* what the remote may answer a read with: parsed data, or a text that may
\* be empty
ResultsOf(op) ==
    IF op.kind = "getItemWithFormat" /\ op.include # "undefined"
    THEN IF returnsText(op) THEN {"", "text+bib"} ELSE {"v1+bib"}
    ELSE IF returnsText(op) THEN {"", "text"} ELSE {"v1"}

ReadErrors ==
    { HttpError(429, NoHeader, Seconds(1)), HttpError(404, NoHeader, NoHeader) }

\* the caller keeps to a working set of at most MaxCached slots
WithinWorkingSet(op) ==
    \/ Cardinality(DOMAIN cache) < MaxCached
    \/ ~isCachedRead(op)
    \/ cacheKeyOf(op) \in DOMAIN cache

InitReads ==
    /\ now = 0
    /\ cache = << >>
    /\ ret = NoRet
    /\ config \in [maxRetries : {0, 1}, timeout : TimeoutChoices,
                   cacheEnabled : BOOLEAN, cacheTTL : {0, 300},
                   userId : {"u1"}, groupId : {""}]
    /\ backoffUntil = << >>
    /\ procs = [p \in {"p1"} |-> IdleProc]
    /\ pauseSet = << >>
    /\ remote = NoRemote
    /\ tool = NoTool

NextReads ==
    \/ \E p \in DOMAIN procs, op \in ReadOps : WithinWorkingSet(op) /\ Start(p, op)
    \/ \E p \in DOMAIN procs : GateWake(p)
    \/ \E p \in DOMAIN procs : \E v \in ResultsOf(procs[p].op) : Succeed(p, v)
    \/ \E p \in DOMAIN procs, e \in ReadErrors : Fail(p, e)
    \/ \E p \in DOMAIN procs : \E i \in DOMAIN procs[p].signals : TimerFire(p, i)
    \/ \E p \in DOMAIN procs : Return(p)
    \/ (now < MaxReadTime /\ Tick)

SpecReads == InitReads /\ [][NextReads]_vars

----------------------------------------------------------------------------
(* The writes over a cache filled by reads, one caller *)

\* an itemKeys array of n keys
Batch(n) == [i \in 1..n |-> IF i = 1 THEN "A" ELSE "B"]

DeleteBatches == {Batch(1), Batch(2), Batch(MaxDeleteBatch), Batch(MaxDeleteBatch + 1)}

WriteOps ==
    {CreateItem(tags) : tags \in TagsPayloads}
    \cup {UpdateItem("A", tags) : tags \in TagsPayloads}
    \cup {DeleteItems(itemKeys) : itemKeys \in DeleteBatches}
    \cup {CreateCollection, UpdateCollection("C1"), DeleteCollection("C1")}

\* the reads that fill the slots the writes invalidate
FillOps ==
    { SearchItems, SearchItemsInCollection("C1"), GetItemWithFormat("A", "json"),
      GetCollections, GetCollection("C1"), GetTags, GetItemTemplate,
      GenerateCitation("A"), GetItemView("A", "json", "bib"),
      GetItemWithFormat("B", "json") }

InitWrites ==
    /\ now = 0
    /\ cache = << >>
    /\ ret = NoRet
    /\ config \in [maxRetries : {0}, timeout : TimeoutChoices,
                   cacheEnabled : BOOLEAN, cacheTTL : {300},
                   userId : {"", "u1"}, groupId : {"", "g1"}]
    /\ (config.userId = "" \/ config.groupId = "")
    /\ backoffUntil = << >>
    /\ procs = [p \in {"p1"} |-> IdleProc]
    /\ pauseSet = << >>
    /\ remote = NoRemote
    /\ tool = NoTool

NextWrites ==
    \/ \E p \in DOMAIN procs, op \in FillOps : WithinWorkingSet(op) /\ Start(p, op)
    \/ \E p \in DOMAIN procs, op \in WriteOps : Start(p, op)
    \/ \E p \in DOMAIN procs : GateWake(p)
    \/ \E p \in DOMAIN procs : Succeed(p, "v1")
    \/ \E p \in DOMAIN procs, e \in ReadErrors : Fail(p, e)
    \/ \E p \in DOMAIN procs : \E i \in DOMAIN procs[p].signals : TimerFire(p, i)
    \/ \E p \in DOMAIN procs : Return(p)
    \/ (now < MaxWriteTime /\ Tick)

SpecWrites == InitWrites /\ [][NextWrites]_vars

----------------------------------------------------------------------------
(* One item fetched in two formats, two callers, one call each *)

\* the views of item A: format undefined, json or bibtex, with and without
\* an include list
FormatOps ==
    {GetItemView("A", format, include) :
        format \in {"", "json", "bibtex"}, include \in {"undefined", "bib"}}

InitFormat ==
    /\ now = 0
    /\ cache = << >>
    /\ ret = NoRet
    /\ config \in [maxRetries : {0, 1}, timeout : TimeoutChoices,
                   cacheEnabled : BOOLEAN, cacheTTL : {0, 300},
                   userId : {"u1"}, groupId : {""}]
    /\ backoffUntil = << >>
    /\ procs = [p \in Procs |-> IdleProc]
    /\ pauseSet = << >>
    /\ remote = NoRemote
    /\ tool = NoTool

NextFormat ==
    \/ \E p \in DOMAIN procs, op \in FormatOps : Start(p, op)
    \/ \E p \in DOMAIN procs : GateWake(p)
    \/ \E p \in DOMAIN procs : \E v \in ResultsOf(procs[p].op) : Succeed(p, v)
    \/ \E p \in DOMAIN procs, e \in ReadErrors : Fail(p, e)
    \/ \E p \in DOMAIN procs : \E i \in DOMAIN procs[p].signals : TimerFire(p, i)
    \/ (now < MaxFormatTime /\ Tick)

SpecFormat == InitFormat /\ [][NextFormat]_vars

----------------------------------------------------------------------------
(* Searches with their parameter objects, one caller *)

\* the parameters of the search_items tool after SearchItemsSchema.parse:
\* limit has a default, query and sort are undefined when not given
ValidatedSearches ==
    [query : {"undefined", "", "x"}, limit : {"25"}, sort : {"undefined", "title"}]

\* the searchParams object the search_items tool builds: limit, sort,
\* direction and format first, then q if (validated.query)
searchParams(validated) ==
    << Property("limit", validated.limit), Property("sort", validated.sort),
       Property("direction", "desc"), Property("format", "json") >>
    \o (IF validated.query \notin {"undefined", ""}
        THEN <<Property("q", validated.query)>> ELSE << >>)

\* manage_tags: { tag: tagToDelete, limit, start }
tagSearchParams(start) ==
    <<Property("tag", "t"), Property("limit", "100"), Property("start", start)>>

\* the properties a caller of searchItems(params) builds its object from
SearchProperties ==
    { Property("q", "x"), Property("q", "y"), Property("limit", "25"),
      Property("sort", "undefined") }

\* the objects of at most two of these properties, no name twice, in
\* every order of insertion
ParamObjects ==
    LET names(params) == {params[i].name : i \in DOMAIN params}
    IN  { params \in UNION {[1..n -> SearchProperties] : n \in 0..2} :
              Cardinality(names(params)) = Len(params) }

SearchOps ==
    {SearchItemsOf(params) : params \in ParamObjects}
    \cup {SearchItemsOf(searchParams(validated)) : validated \in ValidatedSearches}
    \cup {SearchItemsOf(tagSearchParams(start)) : start \in {"0", "100"}}
    \cup {[SearchItemsInCollection("C1") EXCEPT !.params = <<Property("q", "x")>>]}

InitSearch ==
    /\ now = 0
    /\ cache = << >>
    /\ ret = NoRet
    /\ config \in [maxRetries : {0}, timeout : {1000},
                   cacheEnabled : BOOLEAN, cacheTTL : {1, 300},
                   userId : {"u1"}, groupId : {""}]
    /\ backoffUntil = << >>
    /\ procs = [p \in {"p1"} |-> IdleProc]
    /\ pauseSet = << >>
    /\ remote = NoRemote
    /\ tool = NoTool

NextSearch ==
    \/ \E p \in DOMAIN procs, op \in SearchOps : WithinWorkingSet(op) /\ Start(p, op)
    \/ \E p \in DOMAIN procs : Succeed(p, "v1")
    \/ \E p \in DOMAIN procs : Fail(p, HttpError(404, NoHeader, NoHeader))
    \/ \E p \in DOMAIN procs : Return(p)
    \/ (now < MaxReadTime /\ Tick)

SpecSearch == InitSearch /\ [][NextSearch]_vars

----------------------------------------------------------------------------
(* Item writes against a library that checks versions *)

\* the library on the server: its version and, per item, the item's
\* version and (history) the version it was created with
EmptyLibrary == [version |-> 0, items |-> << >>]

UpdateItemAt(itemKey, version) ==
    [UpdateItem(itemKey, "undefined") EXCEPT !.version = version]

\* a PATCH that leaves the version out of the request
unversioned(op) == << >>

\* if (version !== undefined) request = request.version(version): the
\* If-Unmodified-Since-Version header of the PATCH, << >> when there is none
ifUnmodifiedSinceVersion(op) == op.version

\* the server's answer to the PATCH of an item: 404 without the item, 428
\* without the header, 412 when the item was modified since the version
\* given, else success
patchStatus(library, itemKey, header) ==
    IF itemKey \notin DOMAIN library.items THEN 404
    ELSE IF header = << >> THEN 428
    ELSE IF library.items[itemKey].version > header[1] THEN 412
    ELSE 200

\* every mutation takes the next library version
created(library, itemKey) ==
    [version |-> library.version + 1,
     items |-> Put(library.items, itemKey,
                   [version |-> library.version + 1, created |-> library.version + 1])]

patched(library, itemKey) ==
    [version |-> library.version + 1,
     items |-> [library.items EXCEPT ![itemKey].version = library.version + 1]]

\* response.getData() of a write: the item as the server now holds it
itemOf(library, itemKey) ==
    [key |-> itemKey, version |-> library.items[itemKey].version]

\* the server creates the item of a createItem in flight and answers
RemoteCreates(p) ==
    /\ procs[p].op.kind = "createItem"
    /\ remote.version < MaxVersion
    /\ \E itemKey \in ItemKeys \ DOMAIN remote.items :
          /\ remote' = created(remote, itemKey)
          /\ Resolved(p, itemOf(created(remote, itemKey), itemKey))
    /\ UNCHANGED <<tool, now, ret, config, backoffUntil, pauseSet>>

\* the server answers the PATCH of an updateItem in flight
RemotePatches(p) ==
    LET op == procs[p].op
        status == patchStatus(remote, op.itemKey, ifUnmodifiedSinceVersion(op))
    IN  /\ op.kind = "updateItem"
        /\ IF status = 200
           THEN /\ remote.version < MaxVersion
                /\ remote' = patched(remote, op.itemKey)
                /\ Resolved(p, itemOf(patched(remote, op.itemKey), op.itemKey))
                /\ UNCHANGED <<tool, now, ret, config, backoffUntil, pauseSet>>
           ELSE /\ Rejected(p, HttpError(status, NoHeader, NoHeader))
                /\ UNCHANGED <<remote, tool, now, cache, ret, config>>

\* the server applies the PATCH but its answer does not arrive
RemotePatchesUnheard(p) ==
    LET op == procs[p].op IN
    /\ op.kind = "updateItem"
    /\ patchStatus(remote, op.itemKey, ifUnmodifiedSinceVersion(op)) = 200
    /\ remote.version < MaxVersion
    /\ remote' = patched(remote, op.itemKey)
    /\ Rejected(p, NetworkError("fetch failed", NoStatus))
    /\ UNCHANGED <<tool, now, cache, ret, config>>

\* the server creates the item of the POST but its answer does not arrive
RemoteCreatesUnheard(p) ==
    /\ procs[p].op.kind = "createItem"
    /\ remote.version < MaxVersion
    /\ \E itemKey \in ItemKeys \ DOMAIN remote.items :
          remote' = created(remote, itemKey)
    /\ Rejected(p, NetworkError("fetch failed", NoStatus))
    /\ UNCHANGED <<tool, now, cache, ret, config>>

\* the versions a caller may hand to updateItem
CallerVersions == {<< >>} \cup {<<n>> : n \in 0..MaxVersion}

VersionOps ==
    {CreateItem("undefined")}
    \cup {UpdateItemAt(itemKey, version) : itemKey \in ItemKeys, version \in CallerVersions}

InitVersion ==
    /\ now = 0
    /\ cache = << >>
    /\ ret = NoRet
    /\ config \in [maxRetries : {0, 1}, timeout : TimeoutChoices,
                   cacheEnabled : BOOLEAN, cacheTTL : {300},
                   userId : {"u1"}, groupId : {""}]
    /\ backoffUntil = << >>
    /\ procs = [p \in {"p1"} |-> IdleProc]
    /\ pauseSet = << >>
    /\ remote = EmptyLibrary
    /\ tool = NoTool

NextVersion ==
    \/ \E p \in DOMAIN procs, op \in VersionOps : Start(p, op)
    \/ \E p \in DOMAIN procs : GateWake(p)
    \/ \E p \in DOMAIN procs : DelayWake(p)
    \/ \E p \in DOMAIN procs : RemoteCreates(p)
    \/ \E p \in DOMAIN procs : RemotePatches(p)
    \/ \E p \in DOMAIN procs : RemotePatchesUnheard(p)
    \/ \E p \in DOMAIN procs : Fail(p, HttpError(429, NoHeader, Seconds(1)))
    \/ \E p \in DOMAIN procs : \E i \in DOMAIN procs[p].signals : TimerFire(p, i)
    \/ \E p \in DOMAIN procs : Return(p)
    \/ (now < MaxVersionTime /\ Tick)

SpecVersion == InitVersion /\ [][NextVersion]_vars

----------------------------------------------------------------------------
(* One createItem call against an empty library *)

InitCreate ==
    /\ now = 0
    /\ cache = << >>
    /\ ret = NoRet
    /\ config \in [maxRetries : {0, 1, 2}, timeout : TimeoutChoices,
                   cacheEnabled : BOOLEAN, cacheTTL : {300},
                   userId : {"u1"}, groupId : {""}]
    /\ backoffUntil = << >>
    /\ procs = [p \in {"p1"} |-> IdleProc]
    /\ pauseSet = << >>
    /\ remote = EmptyLibrary
    /\ tool = NoTool

\* the one call, its attempts and their answers
NextCreate ==
    \/ \E p \in DOMAIN procs : Start(p, CreateItem("undefined"))
    \/ \E p \in DOMAIN procs : GateWake(p)
    \/ \E p \in DOMAIN procs : DelayWake(p)
    \/ \E p \in DOMAIN procs : RemoteCreates(p)
    \/ \E p \in DOMAIN procs : RemoteCreatesUnheard(p)
    \/ \E p \in DOMAIN procs : Fail(p, HttpError(429, NoHeader, Seconds(1)))
    \/ \E p \in DOMAIN procs : \E i \in DOMAIN procs[p].signals : TimerFire(p, i)
    \/ (now < MaxTime /\ Tick)

SpecCreate == InitCreate /\ [][NextCreate]_vars

----------------------------------------------------------------------------
(* A read and a write of one item in flight at once *)

\* the item's data as the library holds it at each of its versions
ItemCopies == <<"v1", "v2", "v3", "v4", "v5">>

\* response.getData() of a read of the item
copyOf(library, itemKey) == ItemCopies[library.items[itemKey].version]

\* the library answers the GET of a getItem in flight with the item as it
\* holds it now
RemoteAnswers(p) ==
    /\ procs[p].pc = "inflight"
    /\ procs[p].op.kind = "getItem"
    /\ procs[p].response = Null
    /\ procs[p].op.itemKey \in DOMAIN remote.items
    /\ procs' = [procs EXCEPT ![p].response = copyOf(remote, procs[p].op.itemKey)]
    /\ UNCHANGED <<remote, tool, now, cache, ret, config, backoffUntil, pauseSet>>

\* the answer arrives and the attempt resolves with it
ResponseArrives(p) ==
    /\ procs[p].response # Null
    /\ Resolved(p, procs[p].response)
    /\ UNCHANGED <<remote, tool, now, ret, config, backoffUntil, pauseSet>>

RaceOps ==
    {GetItem("A")} \cup {UpdateItemAt("A", <<version>>) : version \in 1..MaxVersion}

InitRace ==
    /\ now = 0
    /\ cache = << >>
    /\ ret = NoRet
    /\ config \in [maxRetries : {0}, timeout : {30000},
                   cacheEnabled : BOOLEAN, cacheTTL : {300},
                   userId : {"u1"}, groupId : {""}]
    /\ backoffUntil = << >>
    /\ procs = [p \in Procs |-> IdleProc]
    /\ pauseSet = << >>
    /\ remote = created(EmptyLibrary, "A")
    /\ tool = NoTool

NextRace ==
    \/ \E p \in DOMAIN procs, op \in RaceOps : Start(p, op)
    \/ \E p \in DOMAIN procs : RemoteAnswers(p)
    \/ \E p \in DOMAIN procs : ResponseArrives(p)
    \/ \E p \in DOMAIN procs : RemotePatches(p)
    \/ \E p \in DOMAIN procs : Return(p)
    \/ (now < MaxVersionTime /\ Tick)

SpecRace == InitRace /\ [][NextRace]_vars

----------------------------------------------------------------------------
(* manage_tags, action delete: the page loop over the library *)

\* const limit = 100
PageLimit == 100

\* the library as the tag search sees it: the items the search for the tag
\* returns, in the server's order; those of them whose tag list has the tag
\* itself (a search for "a || b" also returns items the filter leaves
\* alone); and (history) how often each item was updated and which items
\* had the tag at the start
TagLibrary(n, mixed) ==
    [matching |-> [i \in 1..n |-> i],
     carries |-> {i \in 1..n : ~mixed \/ i % 2 = 1},
     updates |-> [i \in 1..n |-> 0],
     before |-> {i \in 1..n : ~mixed \/ i % 2 = 1}]

\* the page the server returns for {tag, limit, start}
searchPage(library, start, limit) ==
    SubSeq(library.matching, start + 1,
           IF start + limit < Len(library.matching)
           THEN start + limit ELSE Len(library.matching))

\* the library after updateItem(itemKey, {tags: filtered}, version)
untagged(library, item) ==
    [library EXCEPT !.matching = SelectSeq(@, LAMBDA i : i # item),
                    !.carries = @ \ {item},
                    !.updates[item] = @ + 1]

\* the handler before the call and in its loop
TagsIdle ==
    [pc |-> "idle", start |-> 0, items |-> << >>, index |-> 0,
     updatedItems |-> 0, removedTags |-> 0, searches |-> 0]

\* if (!items.length) break
pageIsEmpty(items) == Len(items) = 0

\* a loop that only stops at an empty page
pageIsNeverLast(items) == FALSE

\* if (items.length < limit) break
pageIsLast(items) == Len(items) < PageLimit

\* filtered.length === current.length: the item's tags do not have the tag
skipped(library, item) == item \notin library.carries

\* the end of one round of the for loop: the next item of the page, or the
\* test after the loop
afterItem(t) ==
    IF t.index < Len(t.items) THEN [t EXCEPT !.index = @ + 1]
    ELSE IF pageIsLast(t.items) THEN [t EXCEPT !.pc = "done"]
    ELSE [t EXCEPT !.pc = "search", !.start = @ + Len(t.items)]

\* the for loop runs over the items it skips up to the next updateItem, or
\* to its end
RECURSIVE toNextUpdate(_, _)
toNextUpdate(t, library) ==
    IF t.pc = "update" /\ skipped(library, t.items[t.index])
    THEN toNextUpdate(afterItem(t), library)
    ELSE t

\* manage_tags is called with action delete
ManageTagsDelete ==
    /\ tool.pc = "idle"
    /\ tool' = [tool EXCEPT !.pc = "search"]
    /\ UNCHANGED <<remote, now, cache, ret, config, backoffUntil, procs, pauseSet>>

\* await zoteroClient.searchItems({tag, limit, start}) resolves
SearchResolves ==
    /\ tool.pc = "search"
    /\ LET items == searchPage(remote, tool.start, PageLimit)
           got == [tool EXCEPT !.items = items, !.searches = @ + 1]
       IN  tool' = IF pageIsEmpty(items) THEN [got EXCEPT !.pc = "done"]
                   ELSE toNextUpdate([got EXCEPT !.pc = "update", !.index = 1], remote)
    /\ UNCHANGED <<remote, now, cache, ret, config, backoffUntil, procs, pauseSet>>

\* await zoteroClient.updateItem(itemKey, {tags: filtered}, version) resolves
UpdateResolves ==
    /\ tool.pc = "update"
    /\ remote' = untagged(remote, tool.items[tool.index])
    /\ tool' = toNextUpdate(afterItem([tool EXCEPT !.updatedItems = @ + 1,
                                                   !.removedTags = @ + 1]),
                            untagged(remote, tool.items[tool.index]))
    /\ UNCHANGED <<now, cache, ret, config, backoffUntil, procs, pauseSet>>

\* a handler whose catch undoes the updates of the call
CallRejectsAndRollsBack ==
    /\ tool.pc \in {"search", "update"}
    /\ tool' = [tool EXCEPT !.pc = "failed"]
    /\ remote' = TagLibrary(Len(remote.updates), remote.before # DOMAIN remote.updates)
    /\ UNCHANGED <<now, cache, ret, config, backoffUntil, procs, pauseSet>>

\* either call rejects: the handler's catch returns the error
CallRejects ==
    /\ tool.pc \in {"search", "update"}
    /\ tool' = [tool EXCEPT !.pc = "failed"]
    /\ UNCHANGED <<remote, now, cache, ret, config, backoffUntil, procs, pauseSet>>

\* the update reaches the library and its call rejects all the same (the
\* answer comes after the attempt's timeout): the handler's catch returns
\* the error
UpdateRejectsApplied ==
    /\ tool.pc = "update"
    /\ remote' = untagged(remote, tool.items[tool.index])
    /\ tool' = [tool EXCEPT !.pc = "failed"]
    /\ UNCHANGED <<now, cache, ret, config, backoffUntil, procs, pauseSet>>

InitTags ==
    /\ now = 0
    /\ cache = << >>
    /\ ret = NoRet
    /\ config = [maxRetries |-> 0, timeout |-> 0, cacheEnabled |-> FALSE, cacheTTL |-> 0,
                 userId |-> "u1", groupId |-> ""]
    /\ backoffUntil = << >>
    /\ procs = << >>
    /\ pauseSet = << >>
    /\ remote \in {TagLibrary(n, mixed) : n \in 0..MaxItems, mixed \in BOOLEAN}
    /\ tool = TagsIdle

NextTags ==
    \/ ManageTagsDelete
    \/ SearchResolves
    \/ UpdateResolves
    \/ CallRejects
    \/ UpdateRejectsApplied

SpecTags == InitTags /\ [][NextTags]_vars

\* every search and update call settles
SpecTagsLive ==
    /\ InitTags
    /\ [][NextTags]_vars
    /\ WF_vars(ManageTagsDelete)
    /\ WF_vars(SearchResolves \/ UpdateResolves \/ CallRejects \/ UpdateRejectsApplied)

----------------------------------------------------------------------------
(* manage_tags, actions add_to_item and remove_from_item *)

\* ZoteroTag.type and ManageTagsSchema.type: << >> is a missing type
TagTypes == {<< >>, <<0>>, <<1>>}

\* the entries a tag list of an item can hold: tag objects with and without
\* a type, a bare name, and null
TagEntries ==
    { [kind |-> "object", tag |-> "a", type |-> << >>],
      [kind |-> "object", tag |-> "a", type |-> <<0>>],
      [kind |-> "object", tag |-> "b", type |-> <<1>>],
      [kind |-> "string", tag |-> "b", type |-> << >>],
      [kind |-> "null", tag |-> "", type |-> << >>] }

\* the longest tag list of the item
MaxItemTags == 2

TagLists == UNION { [1..n -> TagEntries] : n \in 0..MaxItemTags }

\* the items getItem can resolve with: the version at the top level or only
\* in data
TaggedItems ==
    [version : {<< >>, <<3>>}, data : [version : {<<4>>}, tags : TagLists]]

\* normalizeTags(tags)
normalizeTags(tags) ==
    LET kept == SelectSeq(tags, LAMBDA t : t.kind # "null" /\ t.tag # "")
    IN  [i \in DOMAIN kept |->
            [tag |-> kept[i].tag,
             type |-> IF kept[i].kind = "string" \/ kept[i].type = << >>
                      THEN <<1>> ELSE kept[i].type]]

\* validated.tags || [validated.tag!]
tagsOf(validated) ==
    IF validated.tags.defined THEN validated.tags.list ELSE <<validated.tag>>

\* validated.type || 1
typeOrManual(type) == IF type = << >> \/ type = <<0>> THEN <<1>> ELSE type

\* tagsToAdd.map((tag) => ({ tag, type: validated.type || 1 }))
taggedAs(names, type) ==
    [i \in DOMAIN names |-> [kind |-> "object", tag |-> names[i], type |-> type]]

\* Array.from(tagMap.values()) after tagMap.set(t.tag, t) for each entry: a
\* name keeps the position of its first entry and the value of its last
mapValues(entries) ==
    LET indices == [i \in DOMAIN entries |-> i]
        firsts == SelectSeq(indices,
                      LAMBDA i : \A j \in 1..(i - 1) : entries[j].tag # entries[i].tag)
        last(name) == CHOOSE i \in DOMAIN entries :
                          /\ entries[i].tag = name
                          /\ \A j \in DOMAIN entries : entries[j].tag = name => j <= i
    IN  [k \in DOMAIN firsts |-> entries[last(entries[firsts[k]].tag)]]

\* newTags of the two actions
newTagsOf(validated, itemData) ==
    LET currentTags == normalizeTags(itemData.tags)
        names == tagsOf(validated)
    IN  IF validated.action = "add_to_item"
        THEN mapValues(currentTags
                       \o normalizeTags(taggedAs(names, typeOrManual(validated.type))))
        ELSE SelectSeq(currentTags,
                       LAMBDA t : \A i \in DOMAIN names : names[i] # t.tag)

\* item.version ?? itemData.version
versionOf(item) == IF item.version # << >> THEN item.version ELSE item.data.version

\* the arguments ManageTagsSchema accepts for the two actions: one name or a
\* list of names, and a type
TagEdits ==
    [action : {"add_to_item", "remove_from_item"},
     itemKey : {"A"},
     tag : {"a", "c"},
     tags : {[defined |-> FALSE, list |-> << >>]},
     type : TagTypes]
    \cup
    [action : {"add_to_item", "remove_from_item"},
     itemKey : {"A"},
     tag : {""},
     tags : [defined : {TRUE}, list : {<<"b">>, <<"c", "a">>, <<"c", "c">>}],
     type : TagTypes]

NoUpdate == [itemKey |-> "", tags |-> << >>, version |-> << >>]

\* manage_tags is called with action add_to_item or remove_from_item
ManageTagsOnItem ==
    /\ tool.pc = "idle"
    /\ tool' = [tool EXCEPT !.pc = "getItem"]
    /\ UNCHANGED <<remote, now, cache, ret, config, backoffUntil, procs, pauseSet>>

\* await zoteroClient.getItem(itemKey) resolves; the handler calls updateItem
GetItemResolves ==
    /\ tool.pc = "getItem"
    /\ tool' = [tool EXCEPT
                    !.pc = "updateItem",
                    !.item = remote,
                    !.sent = [itemKey |-> tool.validated.itemKey,
                              tags |-> newTagsOf(tool.validated, remote.data),
                              version |-> versionOf(remote)]]
    /\ UNCHANGED <<remote, now, cache, ret, config, backoffUntil, procs, pauseSet>>

\* await zoteroClient.updateItem(itemKey, { tags: newTags }, version) resolves
TagsUpdateResolves ==
    /\ tool.pc = "updateItem"
    /\ remote' = [remote EXCEPT
                      !.data.tags = taggedAs([i \in DOMAIN tool.sent.tags |->
                                                 tool.sent.tags[i].tag], << >>)]
    /\ tool' = [tool EXCEPT !.pc = "done"]
    /\ UNCHANGED <<now, cache, ret, config, backoffUntil, procs, pauseSet>>

\* either call rejects: the handler's catch returns the error
TagsCallRejects ==
    /\ tool.pc \in {"getItem", "updateItem"}
    /\ tool' = [tool EXCEPT !.pc = "failed"]
    /\ UNCHANGED <<remote, now, cache, ret, config, backoffUntil, procs, pauseSet>>

InitTagEdit ==
    /\ now = 0
    /\ cache = << >>
    /\ ret = NoRet
    /\ config = [maxRetries |-> 0, timeout |-> 0, cacheEnabled |-> FALSE, cacheTTL |-> 0,
                 userId |-> "u1", groupId |-> ""]
    /\ backoffUntil = << >>
    /\ procs = << >>
    /\ pauseSet = << >>
    /\ remote \in TaggedItems
    /\ \E validated \in TagEdits :
           tool = [pc |-> "idle", validated |-> validated,
                   item |-> remote, sent |-> NoUpdate]

NextTagEdit ==
    \/ ManageTagsOnItem
    \/ GetItemResolves
    \/ TagsUpdateResolves
    \/ TagsCallRejects

SpecTagEdit == InitTagEdit /\ [][NextTagEdit]_vars

----------------------------------------------------------------------------
(* get_item by DOI *)

\* limit: 10
DoiLimit == 10

\* a DOI string is its digits and letters and the case it is written in;
\* << >> is an item without the field
RequestedDoi == <<"10.1000/x", "lower">>
OtherDois == { <<"10.1000/x", "upper">>, <<"10.2000/y", "lower">>, << >> }

\* the items the server matches to {q: doi, qmode: 'everything'}, in its
\* order: n items, those at the positions in exact have the requested DOI,
\* the others have other
DoiLibrary(n, exact, other) ==
    [i \in 1..n |-> [key |-> i, DOI |-> IF i \in exact THEN RequestedDoi ELSE other]]

DoiLibraries ==
    {DoiLibrary(n, exact, other) :
        n \in 0..MaxMatches,
        exact \in {e \in SUBSET {1, 2, DoiLimit, DoiLimit + 1} : Cardinality(e) <= 2},
        other \in OtherDois}

\* the page the server returns for a search with this limit
firstPage(library, limit) ==
    SubSeq(library, 1, IF limit < Len(library) THEN limit ELSE Len(library))

\* a comparison that ignores the case
sameDoiIgnoringCase(a, b) == a # << >> /\ a[1] = b[1]

\* i.data?.DOI === validated.doi
sameDoi(a, b) == a = b

\* items.find((i) => i.data?.DOI === validated.doi): the index of the first
\* match, 0 if there is none
find(items, doi) ==
    IF \E i \in DOMAIN items : sameDoi(items[i].DOI, doi)
    THEN CHOOSE i \in DOMAIN items :
            /\ sameDoi(items[i].DOI, doi)
            /\ \A j \in 1..(i - 1) : ~sameDoi(items[j].DOI, doi)
    ELSE 0

NoKey == 0

DoiIdle ==
    [pc |-> "idle", itemKey |-> NoKey, doi |-> << >>, searches |-> 0, limit |-> 0,
     items |-> << >>, fetches |-> 0, fetched |-> NoKey, error |-> "none"]

\* get_item is called with a doi, with or without an itemKey: the itemKey
\* is fetched if there is one, else the search is made
GetItemTool(itemKey) ==
    /\ tool.pc = "idle"
    /\ tool' = IF itemKey # NoKey
               THEN [tool EXCEPT !.pc = "fetch", !.itemKey = itemKey, !.doi = RequestedDoi,
                                 !.fetches = 1, !.fetched = itemKey]
               ELSE [tool EXCEPT !.pc = "search", !.doi = RequestedDoi,
                                 !.searches = 1, !.limit = DoiLimit]
    /\ UNCHANGED <<remote, now, cache, ret, config, backoffUntil, procs, pauseSet>>

\* searchItems resolves: find, then the fetch by key or the error
DoiSearchResolves ==
    /\ tool.pc = "search"
    /\ LET items == firstPage(remote, tool.limit)
           matched == find(items, tool.doi)
       IN  tool' = IF matched = 0
                   THEN [tool EXCEPT !.pc = "failed", !.items = items,
                                     !.error = "No item found with DOI"]
                   ELSE [tool EXCEPT !.pc = "fetch", !.items = items,
                                     !.fetches = @ + 1, !.fetched = items[matched].key]
    /\ UNCHANGED <<remote, now, cache, ret, config, backoffUntil, procs, pauseSet>>

\* getItemWithFormat resolves
DoiFetchResolves ==
    /\ tool.pc = "fetch"
    /\ tool' = [tool EXCEPT !.pc = "done"]
    /\ UNCHANGED <<remote, now, cache, ret, config, backoffUntil, procs, pauseSet>>

\* either call rejects with an error of the client
DoiCallRejects ==
    /\ tool.pc \in {"search", "fetch"}
    /\ tool' = [tool EXCEPT !.pc = "failed", !.error = "client"]
    /\ UNCHANGED <<remote, now, cache, ret, config, backoffUntil, procs, pauseSet>>

InitDoi ==
    /\ now = 0
    /\ cache = << >>
    /\ ret = NoRet
    /\ config = [maxRetries |-> 0, timeout |-> 0, cacheEnabled |-> FALSE, cacheTTL |-> 0,
                 userId |-> "u1", groupId |-> ""]
    /\ backoffUntil = << >>
    /\ procs = << >>
    /\ pauseSet = << >>
    /\ remote \in DoiLibraries
    /\ tool = DoiIdle

NextDoi ==
    \/ \E itemKey \in {NoKey, 1} : GetItemTool(itemKey)
    \/ DoiSearchResolves
    \/ DoiFetchResolves
    \/ DoiCallRejects

SpecDoi == InitDoi /\ [][NextDoi]_vars

----------------------------------------------------------------------------
(* extractTextResponse *)

\* what a response can be and can do.  kind: typeof response, "null" for
\* null and undefined.  nested: the response property: "absent", there but
\* null, an object without text(), or one with text().  hasOk: 'ok' in
\* response.  ownText: typeof response.text === 'function'.  getData:
\* "absent", or what getData() returns: an object with text(), a string,
\* or something else.
Responses ==
    [kind : {"object"}, nested : {"absent", "null", "noText", "text"},
     hasOk : BOOLEAN, ownText : BOOLEAN,
     getData : {"absent", "text", "string", "other"}]
    \cup [kind : {"string", "null"}, nested : {"absent"}, hasOk : {FALSE},
          ownText : {FALSE}, getData : {"absent"}]

\* the text each source yields, named after the source, and the throw
Text(source) == [thrown |-> FALSE, text |-> source]
\* an empty text returned where the throw belongs
EmptyText == Text("")

\* throw new Error('Unexpected response format')
UnexpectedResponseFormat == [thrown |-> TRUE, text |-> "Unexpected response format"]

\* the response's own text() before the nested response's
extractOwnTextFirst(response) ==
    IF response.kind = "object" /\ response.ownText
    THEN Text("response.text()")
    ELSE IF response.kind = "object" /\ response.nested = "text"
    THEN Text("response.response.text()")
    ELSE IF response.kind = "object" /\ response.getData = "text"
    THEN Text("getData().text()")
    ELSE IF response.kind = "object" /\ response.getData = "string"
    THEN Text("getData()")
    ELSE IF response.kind = "string"
    THEN Text("response")
    ELSE UnexpectedResponseFormat

\* extractTextResponse
extractTextResponse(response) ==
    IF response.kind = "object" /\ response.nested = "text"
    THEN Text("response.response.text()")
    ELSE IF response.kind = "object" /\ response.hasOk /\ response.ownText
    THEN Text("response.text()")
    ELSE IF response.kind = "object" /\ response.getData = "text"
    THEN Text("getData().text()")
    ELSE IF response.kind = "object" /\ response.getData = "string"
    THEN Text("getData()")
    ELSE IF response.kind = "string"
    THEN Text("response")
    ELSE UnexpectedResponseFormat

\* a response arrives
Receive(response) ==
    /\ ret.op # "received"
    /\ ret' = [op |-> "received", response |-> response, text |-> Text("")]
    /\ UNCHANGED <<remote, tool, now, cache, config, backoffUntil, procs, pauseSet>>

\* this.extractTextResponse(response)
ExtractTextResponse ==
    /\ ret.op = "received"
    /\ ret' = [ret EXCEPT !.op = "extractTextResponse",
                          !.text = extractTextResponse(ret.response)]
    /\ UNCHANGED <<remote, tool, now, cache, config, backoffUntil, procs, pauseSet>>

InitNormalizer ==
    /\ now = 0
    /\ cache = << >>
    /\ ret \in [op : {"received"}, response : Responses, text : {Text("")}]
    /\ config = [maxRetries |-> 0, timeout |-> 0, cacheEnabled |-> FALSE, cacheTTL |-> 0,
                 userId |-> "u1", groupId |-> ""]
    /\ backoffUntil = << >>
    /\ procs = << >>
    /\ pauseSet = << >>
    /\ remote = NoRemote
    /\ tool = NoTool

NextNormalizer ==
    \/ \E response \in Responses : Receive(response)
    \/ ExtractTextResponse

SpecNormalizer == InitNormalizer /\ [][NextNormalizer]_vars

----------------------------------------------------------------------------
(* The tool handlers and formatErrorForMCP *)

Tools ==
    { "search_items", "get_item", "generate_citation", "create_item", "update_item",
      "delete_items", "manage_collections", "manage_tags" }

\* the most client calls a handler makes one after the other: the template
\* and the creation, the search by DOI and the fetch, the collection and its
\* update; the tag deletion loops, here up to MaxToolCalls
callsOf(name) ==
    CASE name \in {"get_item", "create_item", "manage_collections"} -> 2
      [] name = "manage_tags" -> MaxToolCalls
      [] OTHER -> 1

\* the handlers with a throw of their own between their calls
throwsItself(name) == name \in {"get_item", "manage_collections"}

\* Schema.parse(params) rejects the input
ZodError == Err("ZodError", NoStatus, NoStatus, "other", NoHeader, NoHeader)

\* `No item found with DOI: ${doi}` (the DOI's digits lead the message's
\* digits) and 'Collection version is required to update'
HandlerErrors == {MessageError(100), MessageError(NoStatus)}

\* what a call of the client rejects with
ToolErrors ==
    {HttpError(status, NoHeader, NoHeader) :
        status \in {400, 401, 403, 404, 409, 412, 413, 429, 500, 503}}
    \cup {NetworkError(m, NoStatus) : m \in {"ECONNREFUSED", "ETIMEDOUT", "ENOTFOUND",
                                            "fetch failed"}}
    \cup {AbortError, BatchError, LibraryError}

\* handleError: statusCode (NoStatus when undefined) and userMessage
handleError(error) ==
    LET statusCode == IF error.responseStatus # NoStatus
                      THEN error.responseStatus ELSE error.messageStatus
        byStatus ==
            CASE statusCode = 400 -> "Invalid request parameters"
              [] statusCode \in {401, 403} -> "Authentication failed"
              [] statusCode = 404 -> "Item, collection, or resource not found"
              [] statusCode = 409 -> "Version conflict"
              [] statusCode = 412 -> "Precondition failed"
              [] statusCode = 413 -> "Request entity too large"
              [] statusCode = 429 -> "Rate limit exceeded"
              [] statusCode >= 500 -> "Zotero server error"
              [] OTHER -> "An unexpected error occurred"
        byMessage ==
            CASE error.message = "ECONNREFUSED" -> "Could not connect to Zotero API"
              [] error.message = "ETIMEDOUT" -> "Request timed out"
              [] error.message = "ENOTFOUND" -> "Could not resolve Zotero API hostname"
              [] OTHER -> byStatus
    IN  [statusCode |-> statusCode,
         userMessage |-> IF error.name = "ZodError" THEN "Validation error" ELSE byMessage,
         isRetryable |-> isRetryable(error)]

\* formatErrorForMCP: the text `[Error ${statusCode}] ${userMessage}`, the
\* prefix only with a status code
formatErrorForMCP(error) ==
    LET detail == handleError(error)
    IN  [type |-> "text", prefix |-> detail.statusCode, text |-> detail.userMessage]

\* { content: [{ type: 'text', text }] }
ToolResult(text) ==
    [content |-> [type |-> "text", prefix |-> NoStatus, text |-> text], isError |-> FALSE]

\* { content: [{ type: 'text', text: formatErrorForMCP(error) }], isError: true }
ErrorResult(error) == [content |-> formatErrorForMCP(error), isError |-> TRUE]

\* no handler has been called and nothing returned yet
ToolIdle ==
    [pc |-> "idle", name |-> "none", calls |-> 0, error |-> NoError,
     result |-> [content |-> [type |-> "none", prefix |-> NoStatus, text |-> ""],
                 isError |-> FALSE]]

\* a handler whose try block begins after the validation of the input
catchesAfterParse(name, error) == error.name # "ZodError"

\* try { ... } catch (error) { ... } spans the whole body of every handler
catches(name, error) == name \in Tools

\* error is thrown in handler t: its catch block returns the error result
thrown(t, error) ==
    IF catches(t.name, error)
    THEN [t EXCEPT !.pc = "returned", !.error = error, !.result = ErrorResult(error)]
    ELSE [t EXCEPT !.pc = "threw", !.error = error]

\* a handler is called: Schema.parse(params), then its first client call
CallTool(name, valid) ==
    /\ tool.pc \in {"idle", "returned"}
    /\ LET t == [ToolIdle EXCEPT !.name = name]
       IN  tool' = IF valid
                   THEN [t EXCEPT !.pc = "awaiting", !.calls = 1]
                   ELSE thrown(t, ZodError)
    /\ UNCHANGED <<remote, now, cache, ret, config, backoffUntil, procs, pauseSet>>

\* the awaited call resolves and the handler makes its next call
ToolCallsAgain ==
    /\ tool.pc = "awaiting"
    /\ tool.calls < callsOf(tool.name)
    /\ tool' = [tool EXCEPT !.calls = @ + 1]
    /\ UNCHANGED <<remote, now, cache, ret, config, backoffUntil, procs, pauseSet>>

\* the awaited call resolves and the handler throws on what it got
ToolThrows(error) ==
    /\ tool.pc = "awaiting"
    /\ throwsItself(tool.name)
    /\ tool' = thrown(tool, error)
    /\ UNCHANGED <<remote, now, cache, ret, config, backoffUntil, procs, pauseSet>>

\* the awaited call resolves and the handler returns its result
ToolReturns ==
    /\ tool.pc = "awaiting"
    /\ tool' = [tool EXCEPT !.pc = "returned", !.result = ToolResult("result")]
    /\ UNCHANGED <<remote, now, cache, ret, config, backoffUntil, procs, pauseSet>>

\* the awaited call rejects
ToolCallRejects(error) ==
    /\ tool.pc = "awaiting"
    /\ tool' = thrown(tool, error)
    /\ UNCHANGED <<remote, now, cache, ret, config, backoffUntil, procs, pauseSet>>

InitTools ==
    /\ now = 0
    /\ cache = << >>
    /\ ret = NoRet
    /\ config = [maxRetries |-> 0, timeout |-> 0, cacheEnabled |-> FALSE, cacheTTL |-> 0,
                 userId |-> "u1", groupId |-> ""]
    /\ backoffUntil = << >>
    /\ procs = << >>
    /\ pauseSet = << >>
    /\ remote = NoRemote
    /\ tool = ToolIdle

NextTools ==
    \/ \E name \in Tools, valid \in BOOLEAN : CallTool(name, valid)
    \/ ToolCallsAgain
    \/ \E error \in HandlerErrors : ToolThrows(error)
    \/ ToolReturns
    \/ \E error \in ToolErrors : ToolCallRejects(error)

SpecTools == InitTools /\ [][NextTools]_vars

----------------------------------------------------------------------------
(* Properties of CacheManager *)

\* the other entries of the map are the same before and after the step
OthersUntouched(key) ==
    \A k \in (DOMAIN cache) \ {key} : k \in DOMAIN cache' /\ cache'[k] = cache[k]

\* C1 (as amended): set stores expiresAt = call time + ttl; get returns the
\* stored value at every time now <= expiresAt and leaves the entry in place;
\* at every time now > expiresAt, get returns absent and removes the entry.
C1_CacheTTL ==
    [][ /\ \A k \in CacheKeys, v \in CacheValues, ttl \in CacheTtls :
             Set(k, v, ttl) =>
                 cache'[k] = [value |-> v, expiresAt |-> now + ttl * MsPerSecond]
        /\ \A k \in CacheKeys :
             (Get(k) /\ k \in DOMAIN cache) =>
                 IF now <= cache[k].expiresAt
                 THEN ret'.value = cache[k].value /\ cache' = cache
                 ELSE /\ ret'.value = Null
                      /\ k \notin DOMAIN cache'
                      /\ OthersUntouched(k)
      ]_vars

\* C1 witness: a get found its entry past expiresAt, returned absent and
\* removed it
C1_Witness ==
    /\ ret.op = "get"
    /\ ret.evicted
    /\ ret.value = Null
    /\ ret.key \notin DOMAIN cache

\* C1 as stated: get returns the value while now < expiresAt, and absent
\* (entry removed) at every now >= expiresAt, now = expiresAt included.
C1_Original ==
    [][ \A k \in CacheKeys :
             (Get(k) /\ k \in DOMAIN cache) =>
                 IF now < cache[k].expiresAt
                 THEN ret'.value = cache[k].value /\ cache' = cache
                 ELSE ret'.value = Null /\ k \notin DOMAIN cache'
      ]_vars

\* C2: after invalidateByPrefix(p) no key starting with p remains, every
\* entry whose key does not start with p is unchanged, and the returned
\* count is the number of entries removed.
C2_PrefixInvalidation ==
    [][ \A p \in CachePrefixes :
             InvalidateByPrefix(p) =>
                 /\ \A k \in DOMAIN cache' : ~startsWith(k, p)
                 /\ \A k \in DOMAIN cache :
                        ~startsWith(k, p) => (k \in DOMAIN cache' /\ cache'[k] = cache[k])
                 /\ DOMAIN cache' \subseteq DOMAIN cache
                 /\ ret'.count = Cardinality((DOMAIN cache) \ (DOMAIN cache'))
      ]_vars

\* C2 witness: the example of the spec, invalidate search: removed exactly
\* two entries and item:x remains
C2_Witness ==
    /\ ret.op = "invalidateByPrefix"
    /\ ret.key = <<"search:">>
    /\ ret.count = 2
    /\ DOMAIN cache = { <<"item:", "x">> }

\* C3: with the cache enabled, a successful updateItem(K, data, version)
\* whose data has tags leaves no key item:K... and no tags:all in the cache,
\* and a getItem(K) or getTags() that finds its key absent goes to the
\* network instead of returning a cached value.
C3_WriteInvalidatesRead ==
    [][ \A p \in DOMAIN procs :
          /\ ( /\ config.cacheEnabled
               /\ procs[p].pc = "inflight"
               /\ procs[p].op.kind = "updateItem"
               /\ hasTags(procs[p].op.tags)
               /\ procs'[p].pc = "done" ) =>
                  /\ \A k \in DOMAIN cache' : ~startsWith(k, <<"item:", procs[p].op.itemKey>>)
                  /\ <<"tags:", "all">> \notin DOMAIN cache'
          /\ \A op \in {GetItem(k) : k \in ItemKeys} \cup {GetTags} :
                (Start(p, op) /\ cacheKeyOf(op) \notin DOMAIN cache) =>
                    /\ ~procs'[p].fromCache
                    /\ procs'[p].pc \in {"gate", "inflight"}
      ]_vars

\* C3 witness: item A was fetched over the network and cached, an
\* updateItem(A) with tags has succeeded since, and the slot of A is gone
\* while B's is still there
C3_Witness ==
    \E p \in DOMAIN procs : \E q \in (DOMAIN procs) \ {p} :
        /\ config.cacheEnabled
        /\ config.cacheTTL = 300
        /\ procs[p].pc = "done"
        /\ procs[p].op = UpdateItem("A", "[t]")
        /\ procs[q].pc = "done"
        /\ procs[q].op = GetItem("A")
        /\ ~procs[q].fromCache
        /\ DOMAIN cache = {itemCacheKey("B")}

----------------------------------------------------------------------------
(* Properties of the retry controller *)

\* the attempt of p that is in flight is given up in this step
AttemptEnds(p) == procs[p].pc = "inflight" /\ procs'[p] # procs[p]

\* p issues a network call in this step
Issues(p) == procs'[p].calls > procs[p].calls

\* the failures the taxonomy calls a rate-limit signal
RateLimitSignal(error) == getErrorStatus(error) \in {429, 503}

\* the failures the taxonomy calls transient
TransientFailure(error) ==
    /\ ~RateLimitSignal(error)
    /\ \/ error.name = "AbortError"
       \/ getErrorStatus(error) = 408
       \/ getErrorStatus(error) \in 500..599
       \/ error.message \in {"ECONNREFUSED", "ETIMEDOUT", "fetch failed"}

\* the failures the taxonomy says are never retried
NonRetryable(error) ==
    /\ error.name # "AbortError"
    /\ error.message = "other"
    /\ getErrorStatus(error) \in {NoStatus, 400, 401, 403, 404, 409}

\* C4: when every attempt of an operation fails with a rate-limit signal,
\* exactly maxRetries + 1 attempts are issued and then the error is surfaced
\* (one attempt for maxRetries = 0); no further attempt is pending or issued.
C4_RetryBound ==
    \A p \in DOMAIN procs :
        procs[p].allRateLimited =>
            /\ procs[p].calls <= config.maxRetries + 1
            /\ procs[p].pc \in {"gate", "delay"} => procs[p].calls <= config.maxRetries
            /\ procs[p].pc = "failed" =>
                   /\ procs[p].calls = config.maxRetries + 1
                   /\ RateLimitSignal(procs[p].error)

\* C4 witness: maxRetries = 3, four attempts all rate-limited, error surfaced
C4_Witness ==
    \E p \in DOMAIN procs :
        /\ config.maxRetries = 3
        /\ procs[p].pc = "failed"
        /\ procs[p].allRateLimited
        /\ procs[p].calls = 4

\* C5: once a rate-limit failure has set the pause deadline to u, no
\* operation issues a network call before u is reached, operations that
\* were already waiting on an earlier pause included.  pauseSet is the
\* deadline most recently set.
C5_SharedPauseGate ==
    [][ \A p \in DOMAIN procs :
            Issues(p) => (pauseSet' = << >> \/ now >= pauseSet'[1])
      ]_vars

\* C6: a 429/503 with a parsed Backoff/Retry-After of d seconds (0 included)
\* sets the pause deadline to now + d, one without sets it to
\* now + 5s * 2^(maxRetries - retriesLeft); with retries left the next
\* attempt runs with retriesLeft - 1 and not before the deadline, otherwise
\* the error is propagated.
C6_BackoffSchedule ==
    [][ \A p \in DOMAIN procs :
          /\ \A e \in RetryErrors :
               (Fail(p, e) /\ RateLimitSignal(e)) =>
                   LET d == getRetryAfterSeconds(e)
                       left == procs[p].retries
                   IN  /\ backoffUntil' =
                              IF d # << >>
                              THEN <<now + d[1] * 1000>>
                              ELSE <<now + 5000 * 2 ^ (config.maxRetries - left)>>
                       /\ IF left > 0
                          THEN /\ procs'[p].retries = left - 1
                               /\ procs'[p].pc \in {"gate", "inflight"}
                          ELSE /\ procs'[p].pc = "failed"
                               /\ procs'[p].error = e
          /\ Issues(p) => (pauseSet' = << >> \/ now >= pauseSet'[1])
      ]_vars

\* C7: an attempt that fails transiently with retries left waits
\* 1000ms * (maxRetries - retriesLeft + 1) and then runs the next attempt
\* with retriesLeft - 1; with none left the error is propagated.  An
\* attempt aborted by its timeout is one of these.
C7_TransientRetry ==
    [][ \A p \in DOMAIN procs :
          LET left == procs[p].retries
              Handled(e) ==
                  IF left > 0
                  THEN /\ procs'[p].pc = "delay"
                       /\ procs'[p].wake = now + 1000 * (config.maxRetries - left + 1)
                       /\ procs'[p].retries = left
                       /\ procs'[p].calls = procs[p].calls
                  ELSE /\ procs'[p].pc = "failed"
                       /\ procs'[p].error = e
          IN  /\ \A e \in RetryErrors : (Fail(p, e) /\ TransientFailure(e)) => Handled(e)
              /\ (AttemptEnds(p) /\ procs'[p].signals[procs[p].calls].timer = "fired")
                     => Handled(AbortError)
              /\ (procs[p].pc = "delay" /\ procs'[p].pc # "delay") =>
                     /\ now >= procs[p].wake
                     /\ procs'[p].retries = left - 1
                     /\ procs'[p].pc \in {"gate", "inflight"}
                     /\ procs'[p].pc = "inflight" => Issues(p)
      ]_vars

\* C7 witness: an attempt was aborted by its timeout and the operation is
\* waiting out the linear delay before its retry
C7_Witness ==
    \E p \in DOMAIN procs :
        /\ procs[p].pc = "delay"
        /\ procs[p].signals[procs[p].calls].timer = "fired"
        /\ procs[p].wake = now + 1000
        /\ procs[p].retries = config.maxRetries

\* C8: an attempt that fails with 401/403, 404, 409, a validation error or
\* an unclassified error is propagated at once: no delay, no further
\* attempt, no change of the pause, whatever maxRetries is.
C8_NonRetryable ==
    [][ \A p \in DOMAIN procs : \A e \in RetryErrors :
            (Fail(p, e) /\ NonRetryable(e)) =>
                /\ procs'[p].pc = "failed"
                /\ procs'[p].error = e
                /\ procs'[p].calls = procs[p].calls
                /\ procs'[p].retries = procs[p].retries
                /\ backoffUntil' = backoffUntil
      ]_vars

\* C8 witness: a version conflict surfaced after one attempt with all
\* three retries unused
C8_Witness ==
    \E p \in DOMAIN procs :
        /\ config.maxRetries = 3
        /\ procs[p].pc = "failed"
        /\ getErrorStatus(procs[p].error) = 409
        /\ procs[p].calls = 1
        /\ procs[p].retries = 3

\* C9: a 412 is retried while retries remain and surfaces only once they
\* are used up.
C9_PreconditionRetried ==
    \A p \in DOMAIN procs :
        (procs[p].pc = "failed" /\ getErrorStatus(procs[p].error) = 412) =>
            procs[p].retries = 0

\* C10: every attempt gets a controller of its own, armed at now + timeout;
\* a timer that fires aborts the attempt bound to its controller and nothing
\* else: no other attempt of the operation, no other operation.
C10_PerAttemptSignal ==
    [][ \A p \in DOMAIN procs :
          /\ Issues(p) =>
                /\ Len(procs'[p].signals) = procs'[p].calls
                /\ procs'[p].signals[procs'[p].calls] =
                       [timer |-> "armed", deadline |-> now + config.timeout]
          /\ \A i \in DOMAIN procs[p].signals :
                (procs[p].signals[i].timer = "armed" /\ procs'[p].signals[i].timer = "fired") =>
                    /\ now >= procs[p].signals[i].deadline
                    /\ \A q \in (DOMAIN procs) \ {p} : procs'[q] = procs[q]
                    /\ (i # procs[p].calls \/ procs[p].pc # "inflight") =>
                           procs'[p] = [procs[p] EXCEPT
                                           !.signals[i] = [timer |-> "fired", deadline |-> 0]]
      ]_vars

\* C10 witness: the first attempt was aborted by its timer, the second is
\* in flight on its own armed signal, while another operation is in flight
C10_Witness ==
    \E p \in DOMAIN procs : \E q \in (DOMAIN procs) \ {p} :
        /\ procs[p].pc = "inflight"
        /\ procs[p].calls = 2
        /\ procs[p].signals[1].timer = "fired"
        /\ procs[p].signals[2].timer = "armed"
        /\ procs[q].pc = "inflight"

----------------------------------------------------------------------------
(* Properties of the client's reads and writes *)

\* the cache has an entry for the key of op that get does not find expired
LiveEntry(op) ==
    /\ cacheKeyOf(op) \in DOMAIN cache
    /\ ~isExpired(cache[cacheKeyOf(op)], now)

\* C11: with the cache enabled, a read whose key has a live entry returns
\* the cached value whatever that value is (an empty text included), issues
\* no network call, does not wait at the pause gate even while the client
\* is paused, and leaves the cache as it is.
C11_CacheHit ==
    [][ \A p \in DOMAIN procs : \A op \in ReadOps :
            (Start(p, op) /\ config.cacheEnabled /\ LiveEntry(op)) =>
                /\ procs'[p].pc = "done"
                /\ procs'[p].result = cache[cacheKeyOf(op)].value
                /\ procs'[p].calls = 0
                /\ cache' = cache
      ]_vars

\* p's write resolves in this step
WriteSucceeds(p) ==
    /\ procs[p].op \in WriteOps
    /\ procs[p].pc = "inflight"
    /\ procs'[p].pc = "done"

\* C12: with the cache enabled, after every successful write (item or
\* collection) no key starting with search: remains, the
\* search:collection:<key>:... result sets included.
C12_SearchInvalidation ==
    [][ \A p \in DOMAIN procs :
            (WriteSucceeds(p) /\ config.cacheEnabled) =>
                \A k \in DOMAIN cache' : ~startsWith(k, <<"search:">>)
      ]_vars

\* C13: with the cache enabled, after every successful item write
\* (createItem, updateItem, deleteItems) and collection write no key
\* starting with collections: remains.
C13_CollectionsInvalidation ==
    [][ \A p \in DOMAIN procs :
            (WriteSucceeds(p) /\ config.cacheEnabled) =>
                \A k \in DOMAIN cache' : ~startsWith(k, <<"collections:">>)
      ]_vars

\* C16: deleteItems with more than 50 keys fails locally: no network call,
\* no wait at the pause gate, no change of the cache or of the pause;
\* deleteItems with 1 to 50 keys (and a library configured) goes on to the
\* network, and when its first attempt succeeds it has issued exactly one
\* network call for the whole batch.
C16_BatchDeleteLimit ==
    [][ \A p \in DOMAIN procs : \A itemKeys \in DeleteBatches :
          /\ (Start(p, DeleteItems(itemKeys)) /\ Len(itemKeys) > 50) =>
                /\ procs'[p].pc = "failed"
                /\ procs'[p].error = BatchError
                /\ procs'[p].calls = 0
                /\ cache' = cache
                /\ backoffUntil' = backoffUntil
          /\ ( /\ Start(p, DeleteItems(itemKeys))
               /\ Len(itemKeys) <= 50
               /\ getLibraryId(config) # NoLibrary ) =>
                /\ procs'[p].pc \in {"gate", "inflight"}
                /\ procs'[p].calls = IF procs'[p].pc = "inflight" THEN 1 ELSE 0
          /\ ( /\ procs[p].op = DeleteItems(itemKeys)
               /\ procs[p].pc = "inflight"
               /\ procs[p].retries = config.maxRetries
               /\ procs'[p].pc = "done" ) => procs'[p].calls = 1
      ]_vars

\* C16 witness: a batch of 51 keys was refused without a call while the
\* client was paused and the cache held an item, and the cache still holds it
C16_Witness ==
    \E p \in DOMAIN procs :
        /\ procs[p].pc = "failed"
        /\ procs[p].op = DeleteItems(Batch(51))
        /\ procs[p].calls = 0
        /\ backoffUntil # << >>
        /\ now < backoffUntil[1]
        /\ <<"item:", "A", ":", "json", ":">> \in DOMAIN cache

C14_OptimisticConcurrency ==
    [][ \A p \in DOMAIN procs :
          LET op == procs[p].op IN
          ( /\ op.kind = "updateItem"
            /\ procs[p].pc = "inflight"
            /\ op.itemKey \in DOMAIN remote.items
            /\ op.version # << >> ) =>
              LET current == remote.items[op.itemKey].version
                  carried == op.version[1]
              IN  /\ (carried = current /\ RemotePatches(p)) =>
                         /\ procs'[p].pc = "done"
                         /\ remote'.items[op.itemKey].version > current
                         /\ procs'[p].result.version = remote'.items[op.itemKey].version
                  /\ carried < current =>
                         /\ remote' = remote
                         /\ procs'[p].pc # "done"
                         /\ RemotePatches(p) =>
                                /\ procs'[p].pc = "failed"
                                /\ getErrorStatus(procs'[p].error) = 412
      ]_vars

\* C14 witness: item A was created, has been updated since, and an
\* updateItem carrying the version A was created with has failed with 412
\* after one call
C14_Witness ==
    \E p \in DOMAIN procs :
        /\ "A" \in DOMAIN remote.items
        /\ remote.items["A"].version > remote.items["A"].created
        /\ procs[p].pc = "failed"
        /\ procs[p].op = UpdateItemAt("A", <<remote.items["A"].created>>)
        /\ getErrorStatus(procs[p].error) = 412
        /\ procs[p].calls = 1

----------------------------------------------------------------------------
(* Properties of the tool handlers *)

\* C17: when the N items that carry the tag span more than one page of 100
\* and manage_tags delete completes without error, each of the N items was
\* updated exactly once, updatedItems = N, removedTags = N, and no item
\* carries the tag.
C17_BulkTagRemoval ==
    (tool.pc = "done" /\ Cardinality(remote.before) > 100) =>
        /\ remote.carries = {}
        /\ tool.updatedItems = Cardinality(remote.before)
        /\ tool.removedTags = Cardinality(remote.before)
        /\ \A i \in remote.before : remote.updates[i] = 1

\* C18: when every search and update call settles, manage_tags delete
\* terminates on every finite library, and its page loop ends at the first
\* page that comes back with fewer than 100 results or with none: after
\* such a page no further search is made.  Libraries whose number of tagged
\* items is a multiple of 100 are among those checked.
C18_BulkTagTermination ==
    /\ <>(tool.pc \in {"done", "failed"})
    /\ [](tool.pc = "search" /\ tool.searches > 0 => Len(tool.items) = 100)
    /\ [](tool.pc = "done" => Len(tool.items) < 100)

\* C18 witness: 200 items carried the tag; the first page was full, the
\* second search came back empty and the handler returned
C18_Witness ==
    /\ tool.pc = "done"
    /\ Cardinality(remote.before) = 200
    /\ Len(remote.updates) = 200
    /\ tool.searches = 2
    /\ tool.items = << >>

\* C19: get_item with a doi (and no itemKey) makes exactly one search, with
\* page size 10, and never a second one; if an item among the first 10
\* results has exactly the requested DOI, the first such item is fetched by
\* its key and nothing else is; if none has, the call fails with the
\* no-item-found error and fetches nothing.
C19_LookupByDoi ==
    (tool.pc # "idle" /\ tool.itemKey = NoKey) =>
        LET page == firstPage(remote, 10)
            hits == {i \in DOMAIN page : page[i].DOI = RequestedDoi}
        IN  /\ tool.searches = 1
            /\ tool.limit = 10
            /\ tool.pc = "search" => tool.fetches = 0
            /\ tool.pc \in {"fetch", "done"} =>
                   /\ hits # {}
                   /\ \E i \in hits : /\ tool.fetched = page[i].key
                                      /\ \A j \in hits : i <= j
                   /\ tool.fetches = 1
            /\ (tool.pc = "failed" /\ tool.error = "No item found with DOI") =>
                   /\ hits = {}
                   /\ tool.fetches = 0
            /\ (tool.pc = "failed" /\ hits = {}) => tool.fetches = 0
            /\ (tool.pc = "failed" /\ hits # {}) => tool.error = "client"

\* C19 witness: eleven items match the query, the only one with exactly the
\* requested DOI is the eleventh, the others differ from it in case only:
\* the lookup failed with no item found and fetched nothing
C19_Witness ==
    /\ tool.pc = "failed"
    /\ tool.error = "No item found with DOI"
    /\ tool.fetches = 0
    /\ Len(remote) = 11
    /\ remote[11].DOI = RequestedDoi
    /\ \A i \in 1..10 : remote[i].DOI = <<"10.1000/x", "upper">>

----------------------------------------------------------------------------
(* Properties of extractTextResponse *)

\* C20 (as amended): text extraction uses the nested underlying response's
\* text capability when there is one; otherwise the response's own text
\* capability, provided the response also has an ok property; otherwise the
\* data accessor, when it yields an object with a text capability or a
\* string; otherwise the response itself when it is a string.
C20_NormalizerPriority ==
    ret.op = "extractTextResponse" =>
        LET r == ret.response
            isObject == r.kind = "object"
        IN  /\ (isObject /\ r.nested = "text") =>
                   ret.text = Text("response.response.text()")
            /\ (isObject /\ r.nested # "text" /\ r.hasOk /\ r.ownText) =>
                   ret.text = Text("response.text()")
            /\ (isObject /\ r.nested # "text" /\ ~(r.hasOk /\ r.ownText)
                         /\ r.getData \in {"text", "string"}) =>
                   ret.text = Text(IF r.getData = "text" THEN "getData().text()"
                                   ELSE "getData()")
            /\ r.kind = "string" => ret.text = Text("response")

\* C20 witness: a response with a text capability of its own (and ok) and a
\* nested response with one: the nested response's text was taken
C20_Witness ==
    /\ ret.op = "extractTextResponse"
    /\ ret.response.kind = "object"
    /\ ret.response.ownText
    /\ ret.response.hasOk
    /\ ret.response.nested = "text"
    /\ ret.text = Text("response.response.text()")

\* C20 as stated: the response's own text capability when present,
\* otherwise the nested response's, otherwise the data accessor, otherwise
\* the response itself when it is a string.
C20_Original ==
    ret.op = "extractTextResponse" =>
        LET r == ret.response IN
        /\ r.ownText => ret.text = Text("response.text()")
        /\ (~r.ownText /\ r.nested = "text") => ret.text = Text("response.response.text()")
        /\ (~r.ownText /\ r.nested # "text" /\ r.getData \in {"text", "string"}) =>
               ret.text = Text(IF r.getData = "text" THEN "getData().text()" ELSE "getData()")
        /\ r.kind = "string" => ret.text = Text("response")

\* C21: a response with no text capability of its own, no nested response
\* with one, no data accessor yielding a text or a string, and that is not a
\* string makes extractTextResponse fail with 'Unexpected response format';
\* no text, the empty one included, is returned instead.
C21_NormalizerFailure ==
    ret.op = "extractTextResponse" =>
        LET r == ret.response IN
        (/\ ~r.ownText
         /\ r.nested # "text"
         /\ r.getData \notin {"text", "string"}
         /\ r.kind # "string")
            => /\ ret.text.thrown
               /\ ret.text = UnexpectedResponseFormat

\* C21 witness: an object whose nested response has no text() and whose
\* getData() yields something that is no text was given, and the call threw
C21_Witness ==
    /\ ret.op = "extractTextResponse"
    /\ ret.response.kind = "object"
    /\ ~ret.response.ownText
    /\ ret.response.nested = "noText"
    /\ ret.response.getData = "other"
    /\ ret.text = UnexpectedResponseFormat

----------------------------------------------------------------------------
(* Properties of the client across operations *)

\* a failure that is no rate-limit signal and carries no Backoff or
\* Retry-After header
PlainFailure(error) ==
    /\ ~RateLimitSignal(error)
    /\ error.backoff = NoHeader
    /\ error.retryAfter = NoHeader

\* C22: an operation that fails with an error that is neither a rate-limit
\* signal nor carries a retry-after hint does not set or extend the pause
\* deadline and leaves every cache entry unchanged, so a following operation
\* sees the cache and the pause state it would see had the failed operation
\* not run.  First conjunct: the step in which such a failure is caught
\* changes neither the pause deadline nor the cache.  Second conjunct: when
\* p has failed on its only attempt with such an error and the other
\* operation q ended on a rate-limit signal, a pause q set (pauseSet) that is
\* not over yet is still the pause deadline, as it would be without p.
C22_FailureIsolation ==
    /\ [][ \A p \in DOMAIN procs :
             (/\ procs[p].pc = "inflight"
              /\ procs'[p].pc = "failed"
              /\ PlainFailure(procs'[p].error))
                 => UNCHANGED <<backoffUntil, cache>>
         ]_vars
    /\ [](\A p, q \in DOMAIN procs :
             (/\ p # q
              /\ procs[p].pc = "failed"
              /\ procs[p].calls = 1
              /\ PlainFailure(procs[p].error)
              /\ procs[q].pc = "failed"
              /\ RateLimitSignal(procs[q].error))
                 => (paused(pauseSet, now) => backoffUntil = pauseSet))

\* the cache keys whose entry this step writes: new, or not what it was
Written == {k \in DOMAIN cache' : k \notin DOMAIN cache \/ cache'[k] # cache[k]}

Called(p) == procs[p].pc = "idle" /\ procs'[p].pc # "idle"

\* C24: with neither a user id nor a group id configured, a library-scoped
\* operation that does not hit the cache fails in the step in which it is
\* called: no network call is issued, it does not wait at the pause gate
\* even when a pause is on, and the cache and the pause deadline stay as
\* they are; no call of such an operation is ever in flight.  With exactly
\* one of the two configured, every call is addressed to that library.
C24_LibraryFailFast ==
    /\ [][ \A p \in DOMAIN procs :
             (/\ Called(p)
              /\ config.userId = "" /\ config.groupId = ""
              /\ isLibraryScoped(procs'[p].op)
              /\ ~procs'[p].fromCache)
                 => /\ procs'[p].pc = "failed"
                    /\ procs'[p].calls = 0
                    /\ UNCHANGED <<cache, backoffUntil>>
         ]_vars
    /\ [](\A p \in DOMAIN procs :
             (config.userId = "" /\ config.groupId = "" /\ isLibraryScoped(procs[p].op))
                 => procs[p].calls = 0 /\ procs[p].pc \in {"idle", "failed", "done"})
    /\ [](\A p \in DOMAIN procs :
             (procs[p].calls > 0 /\ isLibraryScoped(procs[p].op))
                 => /\ (config.userId # "" /\ config.groupId = "")
                           => procs[p].library = [type |-> "user", id |-> config.userId]
                    /\ (config.userId = "" /\ config.groupId # "")
                           => procs[p].library = [type |-> "group", id |-> config.groupId])

\* C24 witness: no id is configured, a pause is on (a template fetch was
\* rate-limited), and a deletion has failed on the missing library
\* reference without a call and without a wait
C24_Witness ==
    \E p \in DOMAIN procs :
        /\ config.userId = "" /\ config.groupId = ""
        /\ paused(backoffUntil, now)
        /\ procs[p].op.kind = "deleteItems"
        /\ procs[p].pc = "failed"
        /\ procs[p].error = LibraryError
        /\ procs[p].calls = 0

\* the other half of the C24 witness: only the group id is configured and a
\* call of a write is in flight to the group library
C24_WitnessGroup ==
    \E p \in DOMAIN procs :
        /\ config.userId = "" /\ config.groupId # ""
        /\ procs[p].op.kind = "updateItem"
        /\ procs[p].pc = "inflight"
        /\ procs[p].library = [type |-> "group", id |-> config.groupId]

\* the TTL in seconds the category of a cache key is said to have; item
\* entries are in none of the categories
categoryTtl(key) ==
    CASE key[1] = "search:" -> config.cacheTTL
      [] key[1] \in {"collections:", "collection:", "tags:"} -> 900
      [] key[1] = "template:" -> 3600
      [] key[1] = "citation:" -> 3600

\* C25: every cache entry is stored with its category's TTL: whenever an
\* entry is written, it expires at now + TTL, where TTL is the configured
\* cacheTTL for search results, 900 s for the collections listing, a single
\* collection and the tags listing, 3600 s for item templates and 3600 s
\* for citations.
C25_CategoryTtls ==
    [][ \A k \in Written :
           k[1] # "item:" => cache'[k].expiresAt = now + categoryTtl(k) * MsPerSecond
      ]_vars

\* C25 witness: at a time after the start a single collection has just been
\* fetched and stored for 900 s, next to a search result that was stored
\* with the configured cacheTTL
C25_Witness ==
    \E p \in DOMAIN procs :
        /\ now > 0
        /\ procs[p].pc = "done"
        /\ ~procs[p].fromCache
        /\ procs[p].op.kind = "getCollection"
        /\ cacheKeyOf(procs[p].op) \in DOMAIN cache
        /\ cache[cacheKeyOf(procs[p].op)].expiresAt = now + 900 * MsPerSecond
        /\ cacheKeyOf(SearchItems) \in DOMAIN cache
        /\ cache[cacheKeyOf(SearchItems)].expiresAt = config.cacheTTL * MsPerSecond

\* C26: every tool handler returns a result for every input and every
\* remote failure: no exception escapes a handler; whatever is thrown in it
\* (a rejected input, a rejected client call, a throw of its own) ends the
\* call in the same step with a result whose content is a text, the one
\* formatErrorForMCP makes of the error, and with isError set; and a result
\* without isError is a text too.
C26_ToolFailuresAreText ==
    /\ [](tool.pc # "threw")
    /\ [](tool.pc = "returned" =>
             /\ tool.name \in Tools
             /\ tool.result.content.type = "text"
             /\ tool.result.isError = (tool.error # NoError)
             /\ tool.error # NoError => tool.result.content = formatErrorForMCP(tool.error))
    /\ [][ \A error \in ToolErrors \cup HandlerErrors \cup {ZodError} :
              (tool'.error = error /\ tool.error # error) => tool'.pc = "returned"
         ]_vars

\* C26 witness: manage_tags has returned the text of a rate-limit failure of
\* its third client call, with isError set
C26_Witness ==
    /\ tool.pc = "returned"
    /\ tool.name = "manage_tags"
    /\ tool.calls = 3
    /\ tool.error = HttpError(429, NoHeader, NoHeader)
    /\ tool.result.isError
    /\ tool.result.content = [type |-> "text", prefix |-> 429, text |-> "Rate limit exceeded"]

\* the cache keys whose value is computed from item K: K in any format, a
\* search result, the collections listing, a single collection, the tags
\* listing, a citation of K
computedFrom(k, K) ==
    \/ startsWith(k, <<"item:", K>>)
    \/ k[1] \in {"search:", "collections:", "collection:", "tags:"}
    \/ k[1] = "citation:" /\ k[2] = K

\* the items a write changes
mutated(op) ==
    CASE op.kind = "updateItem" -> {op.itemKey}
      [] op.kind = "deleteItems" -> {op.itemKeys[i] : i \in DOMAIN op.itemKeys}
      [] OTHER -> {}

\* C27: with the cache enabled, once an updateItem or deleteItems on item K
\* has succeeded, the cache holds no value computed from K's state before
\* the mutation, so no later read (item in any format, search, collections
\* listing, single collection, tags listing, citation) can return one: every
\* entry present right after the write was stored before it.
C27_CoherenceAfterItemMutation ==
    [][ \A p \in DOMAIN procs :
            (WriteSucceeds(p) /\ config.cacheEnabled) =>
                \A K \in mutated(procs[p].op) : \A k \in DOMAIN cache' :
                    ~computedFrom(k, K)
      ]_vars

\* C28: fetches of the same item that differ in format (json, also by
\* default, or bibtex) or in include list use distinct cache keys, and in
\* every interleaving of two fetches a format=json fetch returns the
\* structured data of its own view and a raw-format fetch the raw text of
\* its own view, whether from the cache or from the network.
C28_FormatViewsNeverCollide ==
    /\ \A a, b \in FormatOps :
           (formatKey(a) # formatKey(b) \/ a.include # b.include)
               => cacheKeyOf(a) # cacheKeyOf(b)
    /\ \A p \in DOMAIN procs :
           procs[p].pc = "done" => procs[p].result \in ResultsOf(procs[p].op)

\* C28 witness: the json view of A with an include list was fetched and is
\* cached under its key, and a bibtex fetch of A with the same include
\* list, called after that, has returned its own raw text from the network
C28_Witness ==
    /\ procs["p2"].op = GetItemView("A", "json", "bib")
    /\ procs["p2"].pc = "done"
    /\ procs["p2"].result = "v1+bib"
    /\ DOMAIN cache = {<<"item:", "A", ":", "json", ":", "bib">>}
    /\ ~isExpired(cache[<<"item:", "A", ":", "json", ":", "bib">>], now)
    /\ procs["p1"].op = GetItemView("A", "bibtex", "bib")
    /\ procs["p1"].pc = "done"
    /\ ~procs["p1"].fromCache
    /\ procs["p1"].result = "text+bib"

\* a second C28 case: the plain json view is cached and a fetch with no
\* format but an include list is not served from it
C28_WitnessInclude ==
    /\ procs["p2"].op = GetItemView("A", "json", "undefined")
    /\ procs["p2"].pc = "done"
    /\ <<"item:", "A", ":", "json", ":">> \in DOMAIN cache
    /\ ~isExpired(cache[<<"item:", "A", ":", "json", ":">>], now)
    /\ procs["p1"].op = GetItemView("A", "", "bib")
    /\ procs["p1"].pc = "done"
    /\ ~procs["p1"].fromCache
    /\ procs["p1"].result = "v1+bib"
    /\ procs["p1"].calls = 1

\* C29: whenever a remote response carries a retry-after/backoff hint of d
\* seconds (d > 0), whatever its status, the client is Paused until now + d
\* afterwards: after a failed attempt, rate-limited or not, whose error
\* carries the hint, and after a successful attempt whose response carries
\* it.  (Paused ends by itself: paused(until, t) is false from t = until on.)
C29_RetryAfterHintPauses ==
    [][ \A p \in DOMAIN procs :
          /\ \A error \in RetryErrors :
                (Fail(p, error) /\ truthy(getRetryAfterSeconds(error))) =>
                    /\ backoffUntil' = <<now + getRetryAfterSeconds(error)[1] * MsPerSecond>>
                    /\ paused(backoffUntil', now)
          /\ \A seconds \in BackoffHints :
                SucceedWithBackoff(p, "v1", seconds) =>
                    /\ backoffUntil' = <<now + seconds * MsPerSecond>>
                    /\ paused(backoffUntil', now)
      ]_vars

C31_WitnessNoField ==
    \E p \in DOMAIN procs :
        /\ config.cacheEnabled
        /\ procs[p].op = CreateItem("undefined")
        /\ procs[p].pc = "done"
        /\ tagsCacheKey \in DOMAIN cache

\* the properties with a value, in the order of their names whatever order
\* they were added in
sortedProperties(params) ==
    LET named(n) == SelectSeq(ownProperties(params), LAMBDA x : x.name = n)
    IN  named("direction") \o named("format") \o named("limit") \o named("q")
        \o named("sort") \o named("start") \o named("tag")

\* the same parameter names with the same values
sameParameters(a, b) == sortedProperties(a) = sortedProperties(b)

\* C32: two searchItems calls with equal parameter sets, in whatever order
\* the properties were added, compute the same cache key, so that with the
\* cache enabled a call made while the entry of an earlier one is live is a
\* cache hit without a network call; two calls whose parameter sets differ
\* compute different keys.
C32_DeterministicCacheKey ==
    /\ [][ \A p \in DOMAIN procs : \A op, earlier \in SearchOps :
              (Start(p, op) /\ config.cacheEnabled /\ LiveEntry(earlier)
                  /\ op.kind = earlier.kind
                  /\ sameParameters(op.params, earlier.params)) =>
                  /\ procs'[p].fromCache
                  /\ procs'[p].calls = 0
        ]_vars
    /\ [](\A op, other \in SearchOps :
              (op.kind = other.kind /\ ~sameParameters(op.params, other.params))
                  => cacheKeyOf(op) # cacheKeyOf(other))

\* the calls whose object the search_items tool has built: equal parameter
\* sets share a key, and a call finding the entry of an earlier one is a hit
C32_ToolCallsShareKey ==
    [][ \A p \in DOMAIN procs : \A v, w \in ValidatedSearches :
            LET op == SearchItemsOf(searchParams(v))
                earlier == SearchItemsOf(searchParams(w))
            IN  (Start(p, op) /\ config.cacheEnabled /\ LiveEntry(earlier)
                    /\ sameParameters(op.params, earlier.params)) =>
                    /\ cacheKeyOf(op) = cacheKeyOf(earlier)
                    /\ procs'[p].fromCache
                    /\ procs'[p].calls = 0
      ]_vars

\* calls whose parameter sets differ never share a key
C32_DistinctSetsDistinctKeys ==
    \A op, other \in SearchOps :
        (op.kind = other.kind /\ ~sameParameters(op.params, other.params))
            => cacheKeyOf(op) # cacheKeyOf(other)

\* C33: set(key, v2, ttl2) on a key that holds an entry, live or expired,
\* leaves the key with value v2 and expiresAt = call time + ttl2 whatever
\* the entry was, and changes no other key.
C33_SetOverwrites ==
    [][ \A k \in CacheKeys, v \in CacheValues, ttl \in CacheTtls :
            (Set(k, v, ttl) /\ k \in DOMAIN cache) =>
                /\ cache'[k] = [value |-> v, expiresAt |-> now + ttl * MsPerSecond]
                /\ DOMAIN cache' = DOMAIN cache
                /\ OthersUntouched(k)
      ]_vars

\* C33 witness: a set has replaced a live entry of another value and a
\* later deadline and left the key with its own value and the deadline of
\* its own ttl, next to another entry
C33_Witness ==
    /\ ret.op = "set"
    /\ ret.replaced # NoEntry
    /\ ret.replaced.value # ret.value
    /\ ret.replaced.expiresAt > now
    /\ cache[ret.key] = [value |-> ret.value, expiresAt |-> now]
    /\ Cardinality(DOMAIN cache) > 1

\* a set has replaced an entry that had expired
C33_WitnessExpired ==
    /\ ret.op = "set"
    /\ ret.replaced # NoEntry
    /\ ret.replaced.expiresAt < now
    /\ cache[ret.key].expiresAt = now + MaxTtl * MsPerSecond

\* C34 (as amended): cleanup removes every entry with expiresAt < now,
\* leaves every other entry, the entries with expiresAt = now included, as
\* it was, and returns the number of entries it removed; after it no entry
\* is left that get would take for expired.
C34_CleanupSweep ==
    [][ Cleanup =>
            /\ \A k \in DOMAIN cache :
                   IF cache[k].expiresAt < now
                   THEN k \notin DOMAIN cache'
                   ELSE k \in DOMAIN cache' /\ cache'[k] = cache[k]
            /\ DOMAIN cache' \subseteq DOMAIN cache
            /\ ret'.count = Cardinality((DOMAIN cache) \ (DOMAIN cache'))
            /\ \A k \in DOMAIN cache' :
                   cacheGet(cache', k, now) = [value |-> cache'[k].value, cache |-> cache']
      ]_vars

\* C34 witness: a cleanup has removed one entry and left two, one alive and
\* one at the instant of its expiry
C34_Witness ==
    /\ ret.op = "cleanup"
    /\ ret.count = 1
    /\ \E k \in DOMAIN cache : cache[k].expiresAt > now
    /\ \E k \in DOMAIN cache : cache[k].expiresAt = now

\* C34 as stated: cleanup removes every entry whose expiry time has been
\* reached, the entries with expiresAt = now included.
C34_Original ==
    [][ Cleanup =>
            \A k \in DOMAIN cache :
                cache[k].expiresAt <= now => k \notin DOMAIN cache'
      ]_vars

\* C35: when a search or an update of manage_tags delete fails, the handler
\* stops with the error as its result and makes no further call; the
\* updates applied before stay applied (no item gets the tag back, no
\* update is undone), and no item is updated twice.
C35_BulkTagInterruption ==
    /\ [][ (tool.pc \in {"search", "update"} /\ tool'.pc = "failed") =>
              /\ remote'.carries \subseteq remote.carries
              /\ \A i \in DOMAIN remote.updates :
                     remote'.updates[i] >= remote.updates[i]
        ]_vars
    /\ [][tool.pc # "failed"]_vars
    /\ [](tool.pc # "idle" =>
              /\ \A i \in DOMAIN remote.updates : remote.updates[i] <= 1
              /\ \A i \in remote.before :
                     remote.updates[i] = 1 <=> i \notin remote.carries)

\* C35 witness: the handler has stopped with an error in its second page,
\* after the 100 updates of the first page and one more whose answer was
\* lost; those 101 items are without the tag, each updated once, and the
\* other 100 of the 201 still carry it
C35_Witness ==
    /\ tool.pc = "failed"
    /\ tool.searches = 2
    /\ tool.updatedItems = 100
    /\ Cardinality(remote.before) = 201
    /\ Cardinality(remote.carries) = 100
    /\ \A i \in remote.before : i \notin remote.carries => remote.updates[i] = 1

\* C36: when a getItem(K) that missed the cache was in flight while an
\* updateItem(K) succeeded and invalidated, then once both have completed
\* the cache does not hold the copy of K from before the update: with no
\* operation in flight, an entry of K holds K as the library has it.
C36_ReadWriteRace ==
    (\A p \in DOMAIN procs : procs[p].pc \in {"idle", "done", "failed"}) =>
        \A K \in DOMAIN remote.items :
            itemCacheKey(K) \in DOMAIN cache =>
                cache[itemCacheKey(K)].value = copyOf(remote, K)

\* a getItem and an updateItem of A have both completed, the update second
\* to start and first to finish, and the entry of A is the item before the
\* update
C36_StaleCopyInstalled ==
    /\ procs["p1"].op = GetItem("A") /\ procs["p1"].pc = "done"
    /\ procs["p2"].op.kind = "updateItem" /\ procs["p2"].pc = "done"
    /\ ~procs["p1"].fromCache
    /\ remote.items["A"].version = 2
    /\ itemCacheKey("A") \in DOMAIN cache
    /\ cache[itemCacheKey("A")].value = "v1"

\* C37: whatever mix of rate-limit, transient and other failures its
\* attempts meet, an operation issues at most maxRetries + 1 attempts, also
\* while another operation uses up its own budget, and, when every attempt
\* and every timer settles, it ends with a result or an error.
C37_BoundedAttempts ==
    /\ [](\A p \in DOMAIN procs :
              /\ procs[p].calls <= config.maxRetries + 1
              /\ procs[p].pc \in {"gate", "delay"} => procs[p].calls <= config.maxRetries)
    /\ \A p \in Procs :
          (p \in DOMAIN procs /\ procs[p].pc # "idle")
              ~> (p \in DOMAIN procs /\ procs[p].pc \in {"done", "failed"})

\* C37 witness: with maxRetries = 1 both operations have made their two
\* attempts, four in all; one has failed with a rate-limit signal after a
\* transient failure, the other has its result
C37_Witness ==
    /\ config.maxRetries = 1
    /\ procs["p1"].calls = 2 /\ procs["p2"].calls = 2
    /\ procs["p1"].pc = "failed" /\ ~procs["p1"].allRateLimited
    /\ getErrorStatus(procs["p1"].error) = 429
    /\ procs["p2"].pc = "done"

\* with maxRetries = 3 an operation has failed at its fourth attempt, after
\* rate-limit signals and transient failures
C37_WitnessMix ==
    /\ config.maxRetries = 3
    /\ procs["p1"].calls = 4
    /\ procs["p1"].pc = "failed"
    /\ ~procs["p1"].allRateLimited
    /\ pauseSet # << >>
    /\ getErrorStatus(procs["p1"].error) = 500

\* C38: while a pause is in effect (now < backoffUntil) no step clears
\* backoffUntil or replaces it with an earlier deadline.
C38_PauseNotWeakened ==
    [][ paused(backoffUntil, now) =>
            /\ backoffUntil' # << >>
            /\ backoffUntil'[1] >= backoffUntil[1]
      ]_vars

\* a pause in effect is never cleared, whatever it is replaced with
C38_PauseNotCleared ==
    [][paused(backoffUntil, now) => backoffUntil' # << >>]_vars

\* C39: one createItem call creates at most one item in the library, also
\* when an attempt fails after the library has applied it and another
\* attempt is issued.
C39_AtMostOnceCreate ==
    \A p \in DOMAIN procs :
        procs[p].op.kind = "createItem" => Cardinality(DOMAIN remote.items) <= 1

\* one createItem call has returned the item of its second attempt and the
\* library holds two items
C39_CreatedTwice ==
    \E p \in DOMAIN procs :
        /\ procs[p].op.kind = "createItem"
        /\ procs[p].pc = "done"
        /\ procs[p].calls = 2
        /\ Cardinality(DOMAIN remote.items) = 2

\* the names of the item's tag list that normalizeTags keeps
existingNames(item) ==
    { item.data.tags[i].tag :
        i \in { j \in DOMAIN item.data.tags : item.data.tags[j].kind # "null" } }

\* the names the call asks for
requestedNames(validated) ==
    { tagsOf(validated)[i] : i \in DOMAIN tagsOf(validated) }

\* the type the call asks for: manual when unspecified
requestedType(validated) ==
    IF validated.type = << >> THEN <<1>> ELSE validated.type

\* add_to_item sends the existing names plus the requested ones, no name twice
addSendsUnion ==
    (tool.pc \in {"updateItem", "done"} /\ tool.validated.action = "add_to_item") =>
        /\ { tool.sent.tags[i].tag : i \in DOMAIN tool.sent.tags }
               = existingNames(tool.item) \cup requestedNames(tool.validated)
        /\ \A i, j \in DOMAIN tool.sent.tags :
               tool.sent.tags[i].tag = tool.sent.tags[j].tag => i = j

\* remove_from_item sends the existing tags minus exactly the requested names
removeSendsDifference ==
    (tool.pc \in {"updateItem", "done"} /\ tool.validated.action = "remove_from_item") =>
        /\ { tool.sent.tags[i].tag : i \in DOMAIN tool.sent.tags }
               = existingNames(tool.item) \ requestedNames(tool.validated)
        /\ \A i \in DOMAIN tool.sent.tags :
               \E j \in DOMAIN normalizeTags(tool.item.data.tags) :
                   tool.sent.tags[i] = normalizeTags(tool.item.data.tags)[j]

\* both send the version of the item they read
sendsVersionRead ==
    tool.pc \in {"updateItem", "done"} =>
        /\ tool.sent.itemKey = tool.validated.itemKey
        /\ tool.sent.version = (IF tool.item.version # << >> THEN tool.item.version
                                ELSE tool.item.data.version)

\* C40: manage_tags add_to_item sends the item's existing tags plus the
\* requested tags, no tag name twice, each newly added tag with the requested
\* type (0 = automatic, 1 = manual, manual when unspecified); remove_from_item
\* sends the existing tags minus exactly the requested names; both carry the
\* version of the item they read.
C40_TagEditOnItem ==
    /\ addSendsUnion
    /\ (tool.pc \in {"updateItem", "done"} /\ tool.validated.action = "add_to_item") =>
           \A i \in DOMAIN tool.sent.tags :
               tool.sent.tags[i].tag \in
                   requestedNames(tool.validated) \ existingNames(tool.item)
               => tool.sent.tags[i].type = requestedType(tool.validated)
    /\ removeSendsDifference
    /\ sendsVersionRead

\* what holds of the two actions: the names sent, the version sent, and the
\* type of a newly added tag when the call asks for manual or for no type
C40_ExceptAutomatic ==
    /\ addSendsUnion
    /\ (/\ tool.pc \in {"updateItem", "done"}
        /\ tool.validated.action = "add_to_item"
        /\ tool.validated.type # <<0>>) =>
           \A i \in DOMAIN tool.sent.tags :
               tool.sent.tags[i].tag \in
                   requestedNames(tool.validated) \ existingNames(tool.item)
               => tool.sent.tags[i].type = requestedType(tool.validated)
    /\ removeSendsDifference
    /\ sendsVersionRead

\* add_to_item was asked for an automatic tag the item does not have and has
\* sent it as a manual one
C40_AutomaticSentManual ==
    /\ tool.pc = "done"
    /\ tool.validated.action = "add_to_item"
    /\ tool.validated.type = <<0>>
    /\ tool.validated.tag = "c"
    /\ tool.item.data.tags = << >>
    /\ tool.sent.tags = <<[tag |-> "c", type |-> <<1>>]>>

====
